---- MODULE Spec2Model ----
(***************************************************************************)
(* State-machine model of the rust-tui learning workstation: the bulk      *)
(* exercise check of AppState (src/rust-tui/src/app_state.rs) and the      *)
(* modal text editor (src/rust-tui/src/ui/editor.rs and ui/handlers).      *)
(* Option values are modelled as sequences: None is << >>, Some(x) is      *)
(* <<x>>.  Indices are 0-based as in the source.                           *)
(***************************************************************************)
EXTENDS Integers, Sequences, FiniteSets, TLC

\* ------------------------------------------------------------------------
\* Bounds of the model
\* ------------------------------------------------------------------------
MaxExercises == 3

MaxWorkers == 2

\* Events handled in one editing session
MaxEvents == 6

\* Calls, restarts and reloads in one progress-record session
MaxSessEvents == 2

\* Longest text of an exercise file that the editor operations are applied to.
MaxTextLen == 4

\* ------------------------------------------------------------------------
\* Generic helpers
\* ------------------------------------------------------------------------
None == << >>

Some(x) == <<x>>

Min(a, b) == IF a <= b THEN a ELSE b

\* ------------------------------------------------------------------------
\* State
\* ------------------------------------------------------------------------
VARIABLES
    \* AppState
    n_exercises,            \* self.exercises.len()
    exercises_done,         \* exercise index -> Exercise::done
    n_done,                 \* cached number of done exercises
    current_exercise_ind,
    state_file,             \* bytes of .rustlings-state.txt
    n_writes,               \* number of completed AppState::write calls
    \* check_all_exercises_impl
    mpc,                    \* position of the calling (UI) thread
    n_threads,
    spawned,                \* workers spawned so far
    next_exercise_ind,      \* the AtomicUsize work cursor
    progresses,             \* exercise index -> CheckProgress
    chan,                   \* mpsc channel: sequence of <<exercise_ind, progress>>
    wpc,                    \* worker -> position in its loop
    widx,                   \* worker -> claimed exercise_ind
    wprog,                  \* worker -> progress to send
    exercise_ind,           \* loop variable of process_exercise_results
    first_pending,          \* Option<usize>
    ret,                    \* result of check_all_exercises
    par_result,             \* exercise index -> outcome of the parallel run_exercise
    retry_result,           \* exercise index -> outcome of the sequential run_exercise
    n_invoked,              \* exercise index -> run_exercise calls in the parallel pass
    \* run_tui
    tui,                    \* TuiState (without app_state and renderer-only fields)
    files,                  \* exercise index -> text of the exercise file on disk
    mtimes,                 \* exercise index -> modification time of that file
    signal,                 \* Option<bool> returned by the last handle_key
    status,                 \* "run", "quit", "error" or "panic"
    last_event,             \* the event handled last and the mode it was handled in
    n_events,               \* events handled so far in an editing session
    script,                 \* scripted session: keys typed, undos made, buffer after each key
    exercise_names          \* exercise index -> name, in the order of the exercise list

appVars == <<n_exercises, exercises_done, n_done, current_exercise_ind,
             state_file, n_writes>>

schedVars == <<mpc, n_threads, spawned, next_exercise_ind, progresses, chan,
               wpc, widx, wprog, exercise_ind, first_pending, ret,
               par_result, retry_result, n_invoked>>

tuiVars == <<tui, files, mtimes, signal, status, last_event, n_events, script>>

vars == <<appVars, schedVars, tuiVars, exercise_names>>

\* ------------------------------------------------------------------------
\* AppState: session-state record
\* ------------------------------------------------------------------------
ExIndices == 0 .. (n_exercises - 1)

\* The exercise list as the info file gives it: the i-th exercise is called "e<i>".
InfoNames(n) ==
    [i \in 0 .. (n - 1) |->
        <<"e", <<"0", "1", "2", "3", "4", "5", "6", "7", "8", "9">>[i + 1]>>]

\* exercises[i].name
ExName(i) == exercise_names[i]

STATE_FILE_HEADER == <<"D", "\n", "\n">>

RECURSIVE DoneNames(_, _, _)
DoneNames(dn, i, n) ==
    IF i >= n THEN << >>
    ELSE (IF dn[i] THEN <<"\n">> \o ExName(i) ELSE << >>) \o DoneNames(dn, i + 1, n)

\* Mutant of FileBuf: no line feed ends the name of the current exercise.
FileBuf_NoSeparator(cur, dn, n) ==
    STATE_FILE_HEADER \o ExName(cur) \o DoneNames(dn, 0, n)

\* The bytes AppState::write puts in file_buf and then in the state file.
FileBuf(cur, dn, n) ==
    STATE_FILE_HEADER \o ExName(cur) \o <<"\n">> \o DoneNames(dn, 0, n)

CountDone(dn, n) == Cardinality({i \in 0 .. (n - 1) : dn[i]})

\* file_buf.split(|c| *c == b'\n'): the pieces between line feeds, the piece
\* after the last line feed included.
RECURSIVE SplitBytes(_, _)
SplitBytes(buf, cur) ==
    IF buf = << >> THEN <<cur>>
    ELSE IF Head(buf) = "\n" THEN <<cur>> \o SplitBytes(Tail(buf), << >>)
    ELSE SplitBytes(Tail(buf), Append(cur, Head(buf)))

\* lines.take_while(|name| !name.is_empty()) from piece k on
RECURSIVE TakeNonEmpty(_, _)
TakeNonEmpty(pieces, k) ==
    IF k > Len(pieces) \/ pieces[k] = << >> THEN {}
    ELSE {pieces[k]} \cup TakeNonEmpty(pieces, k + 1)

\* The loop of parse_state_file over the exercises from index i on: n_done += 1
\* for every exercise whose name is in the done set.
RECURSIVE CountNamed(_, _, _, _)
CountNamed(names, done_exercises, i, n) ==
    IF i >= n THEN 0
    ELSE (IF names[i] \in done_exercises THEN 1 ELSE 0)
             + CountNamed(names, done_exercises, i + 1, n)

\* Mutant of parse_state_file: the current exercise is taken by its position in
\* the info file the record was written under.
parse_state_file_ByIndex(buf, names, n) ==
    LET pieces == SplitBytes(buf, << >>)
        fresh == [current_exercise_ind |-> 0,
                  exercises_done |-> [i \in 0 .. (n - 1) |-> FALSE],
                  n_done |-> 0, status |-> "NotRead"]
    IN  IF Len(pieces) < 4 \/ pieces[3] = << >> THEN fresh
        ELSE LET done_exercises == TakeNonEmpty(pieces, 5)
                 dn == [i \in 0 .. (n - 1) |-> names[i] \in done_exercises]
                 hits == {i \in 0 .. (n - 1) : InfoNames(n)[i] = pieces[3]}
             IN  [current_exercise_ind |->
                      IF hits = {} THEN 0 ELSE CHOOSE i \in hits : \A j \in hits : j <= i,
                  exercises_done |-> dn,
                  n_done |-> CountNamed(names, done_exercises, 0, n),
                  status |-> "Read"]

\* parse_state_file on the bytes of the state file, against the exercise list
\* `names` of length n whose done flags are all false (AppState::new).
parse_state_file(buf, names, n) ==
    LET pieces == SplitBytes(buf, << >>)
        fresh == [current_exercise_ind |-> 0,
                  exercises_done |-> [i \in 0 .. (n - 1) |-> FALSE],
                  n_done |-> 0, status |-> "NotRead"]
    IN  IF Len(pieces) < 4 \/ pieces[3] = << >> THEN fresh
        ELSE LET done_exercises == TakeNonEmpty(pieces, 5)
                 dn == [i \in 0 .. (n - 1) |-> names[i] \in done_exercises]
                 hits == {i \in 0 .. (n - 1) : names[i] = pieces[3]}
             IN  [current_exercise_ind |->
                      IF hits = {} THEN 0 ELSE CHOOSE i \in hits : \A j \in hits : j <= i,
                  exercises_done |-> dn,
                  n_done |-> CountNamed(names, done_exercises, 0, n),
                  status |-> "Read"]

\* set_status: new (exercises_done, n_done) after setting exercise i to d.
SetStatusDone(dn, i, d) == [dn EXCEPT ![i] = d]

\* Mutant of SetStatusNDone: the counter moves even when the flag does not.
SetStatusNDone_Unguarded(dn, nd, i, d) == IF d THEN nd + 1 ELSE nd - 1

SetStatusNDone(dn, nd, i, d) ==
    IF dn[i] = d THEN nd
    ELSE IF d THEN nd + 1 ELSE nd - 1

\* ------------------------------------------------------------------------
\* check_all_exercises: parallel pass
\* ------------------------------------------------------------------------
CheckOutcomes == {"pass", "fail", "err"}

Workers == 1 .. n_threads

\* Mutant of WorkerProgress: a collaborator error counts as a failed check.
WorkerProgress_ErrIsPending(r) == IF r = "pass" THEN "Done" ELSE "Pending"

\* match success { Ok(true) => Done, Ok(false) => Pending, Err(_) => None }
WorkerProgress(r) ==
    IF r = "pass" THEN "Done"
    ELSE IF r = "fail" THEN "Pending"
    ELSE "None"

\* Done flags a session can start a bulk check with: nothing done, everything
\* done, every other exercise done.
InitialDoneFlags(n) ==
    {[i \in 0 .. (n - 1) |-> FALSE], [i \in 0 .. (n - 1) |-> TRUE],
     [i \in 0 .. (n - 1) |-> i % 2 = 0]}

\* `rustlings check-all` never constructs a TuiState.
TuiNotStarted ==
    /\ tui = None
    /\ files = << >>
    /\ mtimes = << >>
    /\ signal = None
    /\ status = "run"
    /\ last_event = None
    /\ n_events = 0
    /\ script = [typed |-> 0, undone |-> 0, trace |-> << >>]

\* AppState::new accepts an empty exercise list: the current index is then 0
\* and no state file was ever written.
SchedInit ==
    /\ n_exercises \in 0 .. MaxExercises
    /\ exercise_names = InfoNames(n_exercises)
    /\ exercises_done \in InitialDoneFlags(n_exercises)
    /\ n_done = CountDone(exercises_done, n_exercises)
    /\ current_exercise_ind = IF n_exercises = 0 THEN 0 ELSE n_exercises - 1
    /\ state_file = IF n_exercises = 0 THEN << >>
                    ELSE FileBuf(current_exercise_ind, exercises_done, n_exercises)
    /\ n_writes = 0
    /\ mpc = "idle"
    /\ n_threads \in 1 .. MaxWorkers
    /\ spawned = 0
    /\ next_exercise_ind = 0
    /\ progresses = [i \in 0 .. (n_exercises - 1) |-> "None"]
    /\ chan = << >>
    /\ wpc = [w \in 1 .. n_threads |-> "unspawned"]
    /\ widx = [w \in 1 .. n_threads |-> 0]
    /\ wprog = [w \in 1 .. n_threads |-> "None"]
    /\ exercise_ind = 0
    /\ first_pending = None
    /\ ret = None
    /\ par_result = [i \in 0 .. (n_exercises - 1) |-> None]
    /\ retry_result = [i \in 0 .. (n_exercises - 1) |-> None]
    /\ n_invoked = [i \in 0 .. (n_exercises - 1) |-> 0]
    /\ TuiNotStarted

\* check_all_exercises_impl entry: the cursor and the progress array are created.
CheckAllBegin ==
    /\ mpc = "idle"
    /\ mpc' = "spawn"
    /\ next_exercise_ind' = 0
    /\ progresses' = [i \in ExIndices |-> "None"]
    /\ UNCHANGED <<appVars, n_threads, spawned, chan, wpc, widx, wprog,
                   exercise_ind, first_pending, ret, par_result, retry_result,
                   n_invoked, tuiVars, exercise_names>>

\* for _ in 0..n_threads { spawn_scoped(...) }
SpawnWorker ==
    /\ mpc = "spawn"
    /\ spawned < n_threads
    /\ spawned' = spawned + 1
    /\ wpc' = [wpc EXCEPT ![spawned + 1] = "claim"]
    /\ UNCHANGED <<appVars, mpc, n_threads, next_exercise_ind, progresses, chan,
                   widx, wprog, exercise_ind, first_pending, ret, par_result,
                   retry_result, n_invoked, tuiVars, exercise_names>>

\* drop(exercise_progress_sender): the UI thread turns into the collector.
DropSender ==
    /\ mpc = "spawn"
    /\ spawned = n_threads
    /\ mpc' = "recv"
    /\ UNCHANGED <<appVars, n_threads, spawned, next_exercise_ind, progresses,
                   chan, wpc, widx, wprog, exercise_ind, first_pending, ret,
                   par_result, retry_result, n_invoked, tuiVars, exercise_names>>

\* Mutant of WorkerClaim: while exercises are left only worker 1 advances the
\* cursor, the other workers read it with a plain load.
WorkerClaim_LoadOnly(w) ==
    /\ wpc[w] = "claim"
    /\ IF next_exercise_ind < n_exercises
       THEN /\ widx' = [widx EXCEPT ![w] = next_exercise_ind]
            /\ wpc' = [wpc EXCEPT ![w] = "send_checking"]
            /\ next_exercise_ind' = next_exercise_ind + (IF w = 1 THEN 1 ELSE 0)
       ELSE /\ widx' = [widx EXCEPT ![w] = 0]
            /\ wpc' = [wpc EXCEPT ![w] = "exited"]
            /\ next_exercise_ind' = next_exercise_ind + 1
    /\ UNCHANGED <<appVars, mpc, n_threads, spawned, progresses, chan, wprog,
                   exercise_ind, first_pending, ret, par_result, retry_result,
                   n_invoked, tuiVars, exercise_names>>

\* next_exercise_ind.fetch_add(1, Relaxed) and slf.exercises.get(exercise_ind)
WorkerClaim(w) ==
    /\ wpc[w] = "claim"
    /\ next_exercise_ind' = next_exercise_ind + 1
    /\ IF next_exercise_ind < n_exercises
       THEN /\ widx' = [widx EXCEPT ![w] = next_exercise_ind]
            /\ wpc' = [wpc EXCEPT ![w] = "send_checking"]
       ELSE /\ widx' = [widx EXCEPT ![w] = 0]
            /\ wpc' = [wpc EXCEPT ![w] = "exited"]
    /\ UNCHANGED <<appVars, mpc, n_threads, spawned, progresses, chan, wprog,
                   exercise_ind, first_pending, ret, par_result, retry_result,
                   n_invoked, tuiVars, exercise_names>>

\* exercise_progress_sender.send((exercise_ind, CheckProgress::Checking))
WorkerSendChecking(w) ==
    /\ wpc[w] = "send_checking"
    /\ chan' = Append(chan, <<widx[w], "Checking">>)
    /\ wpc' = [wpc EXCEPT ![w] = "run"]
    /\ UNCHANGED <<appVars, mpc, n_threads, spawned, next_exercise_ind,
                   progresses, widx, wprog, exercise_ind, first_pending, ret,
                   par_result, retry_result, n_invoked, tuiVars, exercise_names>>

\* exercise.run_exercise(None, &slf.cmd_runner) and the match on its result
WorkerRun(w) ==
    /\ wpc[w] = "run"
    /\ \E r \in CheckOutcomes :
          /\ wprog' = [wprog EXCEPT ![w] = WorkerProgress(r)]
          /\ par_result' = [par_result EXCEPT ![widx[w]] = Some(r)]
    /\ n_invoked' = [n_invoked EXCEPT ![widx[w]] = @ + 1]
    /\ wpc' = [wpc EXCEPT ![w] = "send_result"]
    /\ UNCHANGED <<appVars, mpc, n_threads, spawned, next_exercise_ind,
                   progresses, chan, widx, exercise_ind, first_pending, ret,
                   retry_result, tuiVars, exercise_names>>

\* Mutant of WorkerSendResult: the result overtakes the events in the channel.
WorkerSendResult_Overtakes(w) ==
    /\ wpc[w] = "send_result"
    /\ chan' = <<<<widx[w], wprog[w]>>>> \o chan
    /\ wpc' = [wpc EXCEPT ![w] = "claim"]
    /\ wprog' = [wprog EXCEPT ![w] = "None"]
    /\ UNCHANGED <<appVars, mpc, n_threads, spawned, next_exercise_ind,
                   progresses, widx, exercise_ind, first_pending, ret,
                   par_result, retry_result, n_invoked, tuiVars, exercise_names>>

\* exercise_progress_sender.send((exercise_ind, progress))
WorkerSendResult(w) ==
    /\ wpc[w] = "send_result"
    /\ chan' = Append(chan, <<widx[w], wprog[w]>>)
    /\ wpc' = [wpc EXCEPT ![w] = "claim"]
    /\ wprog' = [wprog EXCEPT ![w] = "None"]
    /\ UNCHANGED <<appVars, mpc, n_threads, spawned, next_exercise_ind,
                   progresses, widx, exercise_ind, first_pending, ret,
                   par_result, retry_result, n_invoked, tuiVars, exercise_names>>

\* Mutant of CollectorRecv: a received Done is recorded in the done flag at once.
CollectorRecv_SetsDone ==
    /\ mpc = "recv"
    /\ chan # << >>
    /\ progresses' = [progresses EXCEPT ![Head(chan)[1]] = Head(chan)[2]]
    /\ chan' = Tail(chan)
    /\ exercises_done' = IF Head(chan)[2] = "Done"
                         THEN SetStatusDone(exercises_done, Head(chan)[1], TRUE)
                         ELSE exercises_done
    /\ UNCHANGED <<n_exercises, n_done, current_exercise_ind, state_file, n_writes,
                   mpc, n_threads, spawned, next_exercise_ind, wpc,
                   widx, wprog, exercise_ind, first_pending, ret, par_result,
                   retry_result, n_invoked, tuiVars, exercise_names>>

\* while let Ok((exercise_ind, progress)) = receiver.recv() { progresses[..] = .. }
CollectorRecv ==
    /\ mpc = "recv"
    /\ chan # << >>
    /\ progresses' = [progresses EXCEPT ![Head(chan)[1]] = Head(chan)[2]]
    /\ chan' = Tail(chan)
    /\ UNCHANGED <<appVars, mpc, n_threads, spawned, next_exercise_ind, wpc,
                   widx, wprog, exercise_ind, first_pending, ret, par_result,
                   retry_result, n_invoked, tuiVars, exercise_names>>

\* Mutant of CollectorEnd: the sender of the UI thread is never dropped, recv()
\* keeps waiting on the drained channel.
CollectorEnd_SenderKept ==
    /\ mpc = "recv"
    /\ chan = << >>
    /\ \A w \in Workers : wpc[w] = "exited"
    /\ spawned < n_threads
    /\ UNCHANGED vars

\* recv() fails once every sender is dropped and the channel is drained; the
\* scope then joins the workers and process_exercise_results starts.
CollectorEnd ==
    /\ mpc = "recv"
    /\ chan = << >>
    /\ \A w \in Workers : wpc[w] = "exited"
    /\ mpc' = "process"
    /\ exercise_ind' = 0
    /\ first_pending' = None
    /\ UNCHANGED <<appVars, n_threads, spawned, next_exercise_ind, progresses,
                   chan, wpc, widx, wprog, ret, par_result, retry_result,
                   n_invoked, tuiVars, exercise_names>>

\* ------------------------------------------------------------------------
\* check_all_exercises: process_exercise_results and the final write
\* ------------------------------------------------------------------------
\* Mutant of NeedsRetry: a slot left None by the parallel pass is not retried.
NeedsRetry_OnlyChecking(p) == p = "Checking"

\* CheckProgress::None | CheckProgress::Checking => retry sequentially
NeedsRetry(p) == p \in {"None", "Checking"}

\* Mutant of NotePending: the is_none() test is dropped, the last failing
\* exercise wins.
NotePending_Last(fp, i) == Some(i)

\* if first_pending.is_none() { first_pending = Some(exercise_ind); }
NotePending(fp, i) == IF fp = None THEN Some(i) ELSE fp

\* Mutant of ProcessSettled: the state file is rewritten after each exercise.
ProcessSettled_WritesEach ==
    /\ mpc = "process"
    /\ exercise_ind < n_exercises
    /\ ~NeedsRetry(progresses[exercise_ind])
    /\ LET d == progresses[exercise_ind] = "Done" IN
          /\ exercises_done' = SetStatusDone(exercises_done, exercise_ind, d)
          /\ n_done' = SetStatusNDone(exercises_done, n_done, exercise_ind, d)
          /\ first_pending' = IF d THEN first_pending
                              ELSE NotePending(first_pending, exercise_ind)
    /\ exercise_ind' = exercise_ind + 1
    /\ state_file' = FileBuf(current_exercise_ind, exercises_done', n_exercises)
    /\ n_writes' = n_writes + 1
    /\ UNCHANGED <<n_exercises, current_exercise_ind,
                   mpc, n_threads, spawned, next_exercise_ind, progresses, chan,
                   wpc, widx, wprog, ret, par_result, retry_result, n_invoked, tuiVars, exercise_names>>

\* One iteration of the for loop on a slot that is Done or Pending.
ProcessSettled ==
    /\ mpc = "process"
    /\ exercise_ind < n_exercises
    /\ ~NeedsRetry(progresses[exercise_ind])
    /\ LET d == progresses[exercise_ind] = "Done" IN
          /\ exercises_done' = SetStatusDone(exercises_done, exercise_ind, d)
          /\ n_done' = SetStatusNDone(exercises_done, n_done, exercise_ind, d)
          /\ first_pending' = IF d THEN first_pending
                              ELSE NotePending(first_pending, exercise_ind)
    /\ exercise_ind' = exercise_ind + 1
    /\ UNCHANGED <<n_exercises, current_exercise_ind, state_file, n_writes,
                   mpc, n_threads, spawned, next_exercise_ind, progresses, chan,
                   wpc, widx, wprog, ret, par_result, retry_result, n_invoked, tuiVars, exercise_names>>

\* Retry branch, first half: progresses[exercise_ind] = Checking; redraw.
RetryStart ==
    /\ mpc = "process"
    /\ exercise_ind < n_exercises
    /\ NeedsRetry(progresses[exercise_ind])
    /\ progresses' = [progresses EXCEPT ![exercise_ind] = "Checking"]
    /\ mpc' = "retry"
    /\ UNCHANGED <<appVars, n_threads, spawned, next_exercise_ind, chan, wpc,
                   widx, wprog, exercise_ind, first_pending, ret, par_result,
                   retry_result, n_invoked, tuiVars, exercise_names>>

\* Retry branch, second half: run_exercise(..)? and the status update.  An
\* Err from the collaborator leaves process_exercise_results through `?`.
RetryFinish ==
    /\ mpc = "retry"
    /\ \E r \in CheckOutcomes :
          /\ retry_result' = [retry_result EXCEPT ![exercise_ind] = Some(r)]
          /\ IF r = "err"
             THEN /\ mpc' = "returned"
                  /\ ret' = Some([kind |-> "Err", val |-> None])
                  /\ UNCHANGED <<progresses, exercises_done, n_done,
                                 first_pending, exercise_ind, tuiVars, exercise_names>>
             ELSE /\ mpc' = "process"
                  /\ ret' = ret
                  /\ progresses' = [progresses EXCEPT
                                       ![exercise_ind] = WorkerProgress(r)]
                  /\ first_pending' = IF r = "pass" THEN first_pending
                                      ELSE NotePending(first_pending, exercise_ind)
                  /\ exercises_done' =
                        SetStatusDone(exercises_done, exercise_ind, r = "pass")
                  /\ n_done' = SetStatusNDone(exercises_done, n_done,
                                              exercise_ind, r = "pass")
                  /\ exercise_ind' = exercise_ind + 1
    /\ UNCHANGED <<n_exercises, current_exercise_ind, state_file, n_writes,
                   n_threads, spawned, next_exercise_ind, chan, wpc, widx,
                   wprog, par_result, n_invoked, tuiVars, exercise_names>>

\* self.write()?; Ok(first_pending).  With no exercise, current_exercise()
\* inside write() indexes an empty list and panics before the file is touched.
WriteAndReturn ==
    /\ mpc = "process"
    /\ exercise_ind >= n_exercises
    /\ IF n_exercises = 0
       THEN /\ UNCHANGED <<state_file, n_writes>>
            /\ ret' = Some([kind |-> "Panic", val |-> None])
       ELSE /\ state_file' = FileBuf(current_exercise_ind, exercises_done, n_exercises)
            /\ n_writes' = n_writes + 1
            /\ ret' = Some([kind |-> "Ok", val |-> first_pending])
    /\ mpc' = "returned"
    /\ UNCHANGED <<n_exercises, exercises_done, n_done, current_exercise_ind,
                   n_threads, spawned, next_exercise_ind, progresses, chan, wpc,
                   widx, wprog, exercise_ind, first_pending, par_result,
                   retry_result, n_invoked, tuiVars, exercise_names>>

SchedNext ==
    \/ CheckAllBegin
    \/ SpawnWorker
    \/ DropSender
    \/ \E w \in Workers : WorkerClaim(w)
    \/ \E w \in Workers : WorkerSendChecking(w)
    \/ \E w \in Workers : WorkerRun(w)
    \/ \E w \in Workers : WorkerSendResult(w)
    \/ CollectorRecv
    \/ CollectorEnd
    \/ ProcessSettled
    \/ RetryStart
    \/ RetryFinish
    \/ WriteAndReturn

SpecSched == SchedInit /\ [][SchedNext]_vars

\* Every thread that can take a step eventually takes one, and every
\* collaborator invocation returns.
FairSched == SpecSched /\ WF_vars(SchedNext)

\* ------------------------------------------------------------------------
\* Properties of the bulk check
\* ------------------------------------------------------------------------
Returned == mpc = "returned"

ReturnedOk == mpc = "returned" /\ ret # None /\ ret[1].kind = "Ok"

ReturnedErr == mpc = "returned" /\ ret # None /\ ret[1].kind = "Err"

Definitive(p) == p \in {"Done", "Pending"}

FailedSet == {i \in ExIndices : progresses[i] = "Pending"}

C2_FirstPendingIsLowestFailed ==
    ReturnedOk =>
        /\ ret[1].val = None <=> \A i \in ExIndices : progresses[i] = "Done"
        /\ ret[1].val # None =>
              /\ ret[1].val[1] \in FailedSet
              /\ \A j \in FailedSet : ret[1].val[1] <= j

C2_Witness ==
    /\ ReturnedOk
    /\ ret[1].val # None
    /\ \E j \in FailedSet : j > ret[1].val[1]
    /\ \E i \in ExIndices : i < ret[1].val[1]

\* C3: after an Ok return each exercise's final status is that of its parallel
\* invocation when that answered pass or fail (and it was not retried), and
\* otherwise that of its one sequential retry; when every such answer is a
\* pass all exercises are Done, marked done, and the result is None.
C3_FinalStatusSource ==
    ReturnedOk =>
        /\ \A i \in ExIndices :
              \/ par_result[i] = Some("pass") /\ retry_result[i] = None
                    /\ progresses[i] = "Done"
              \/ par_result[i] = Some("fail") /\ retry_result[i] = None
                    /\ progresses[i] = "Pending"
              \/ par_result[i] = Some("err") /\ retry_result[i] = Some("pass")
                    /\ progresses[i] = "Done"
              \/ par_result[i] = Some("err") /\ retry_result[i] = Some("fail")
                    /\ progresses[i] = "Pending"
        /\ (\A i \in ExIndices :
               \/ par_result[i] = Some("pass")
               \/ par_result[i] = Some("err") /\ retry_result[i] = Some("pass"))
           => /\ \A i \in ExIndices : progresses[i] = "Done" /\ exercises_done[i]
              /\ ret[1].val = None

C3_Witness ==
    /\ ReturnedOk
    /\ n_exercises = MaxExercises
    /\ Cardinality({i \in ExIndices : par_result[i] = Some("err")
                                       /\ retry_result[i] = Some("pass")}) = 2
    /\ \A i \in ExIndices : progresses[i] = "Done"
    /\ ret[1].val = None

\* C4: the state file is written at most once per bulk check and only by the
\* step that ends it, after every exercise was processed; at that point
\* done[i] holds exactly for the exercises whose final outcome is Done and
\* n_done counts them.
C4_DoneSyncedWrittenOnce ==
    /\ n_writes <= 1
    /\ n_writes = 1 <=> ReturnedOk
    /\ ReturnedOk =>
          /\ \A i \in ExIndices : exercises_done[i] <=> progresses[i] = "Done"
          /\ n_done = CountDone(exercises_done, n_exercises)
          /\ state_file = FileBuf(current_exercise_ind, exercises_done, n_exercises)

C4_Witness ==
    /\ ReturnedOk
    /\ n_writes = 1
    /\ \E i \in ExIndices : exercises_done[i]
    /\ \E i \in ExIndices : ~exercises_done[i]
    /\ \E i \in ExIndices : retry_result[i] # None

\* ------------------------------------------------------------------------
\* TextEditor (ui/editor.rs).  An editor value is a record
\*   [lines, cursor_row, cursor_col, undo_stack, redo_stack];
\* a line is a sequence of characters, rows and columns are 0-based.
\* ------------------------------------------------------------------------
MAX_UNDO_HISTORY == 100

Take(s, n) == SubSeq(s, 1, Min(n, Len(s)))

Drop(s, n) == SubSeq(s, n + 1, Len(s))

RemoveAt(s, i) == Take(s, i) \o Drop(s, i + 1)

InsertAt(s, i, x) == Take(s, i) \o <<x>> \o Drop(s, i)

IsWhitespace(c) == c \in {" ", "\n", "\t"}

\* str::lines(): split on "\n"; a final empty piece is not a line.  The texts
\* of the model carry no "\r".
RECURSIVE SplitLines(_, _)
SplitLines(text, cur) ==
    IF text = << >> THEN (IF cur = << >> THEN << >> ELSE <<cur>>)
    ELSE IF Head(text) = "\n" THEN <<cur>> \o SplitLines(Tail(text), << >>)
    ELSE SplitLines(Tail(text), Append(cur, Head(text)))

\* TextEditor::new
NewEditor(content) ==
    LET ls == SplitLines(content, << >>) IN
    [lines |-> IF ls = << >> THEN << << >> >> ELSE ls,
     cursor_row |-> 0,
     cursor_col |-> 0,
     undo_stack |-> << >>,
     redo_stack |-> << >>]

\* TextEditor::content: lines.join("\n")
RECURSIVE JoinLines(_)
JoinLines(ls) ==
    IF ls = << >> THEN << >>
    ELSE IF Len(ls) = 1 THEN ls[1]
    ELSE ls[1] \o <<"\n">> \o JoinLines(Tail(ls))

content(e) == JoinLines(e.lines)

create_snapshot(e) ==
    [lines |-> e.lines, cursor_row |-> e.cursor_row, cursor_col |-> e.cursor_col]

\* Mutant of restore_snapshot: the cursor is not restored.
restore_snapshot_LinesOnly(e, snap) == [e EXCEPT !.lines = snap.lines]

restore_snapshot(e, snap) ==
    [e EXCEPT !.lines = snap.lines,
              !.cursor_row = snap.cursor_row,
              !.cursor_col = snap.cursor_col]

\* Mutant of save_snapshot: the length test is off by one.
save_snapshot_CapOffByOne(e) ==
    LET pushed == Append(e.undo_stack, create_snapshot(e)) IN
    [e EXCEPT !.undo_stack = IF Len(pushed) > MAX_UNDO_HISTORY + 1
                             THEN Tail(pushed) ELSE pushed,
              !.redo_stack = << >>]

save_snapshot(e) ==
    LET pushed == Append(e.undo_stack, create_snapshot(e)) IN
    [e EXCEPT !.undo_stack = IF Len(pushed) > MAX_UNDO_HISTORY
                             THEN Tail(pushed) ELSE pushed,
              !.redo_stack = << >>]

\* Mutant of undo: the oldest snapshot is restored, not the newest.
undo_PopsOldest(e) ==
    IF e.undo_stack = << >> THEN [ed |-> e, ok |-> FALSE]
    ELSE LET snap == Head(e.undo_stack)
             e1 == [e EXCEPT !.undo_stack = Tail(e.undo_stack),
                             !.redo_stack = Append(e.redo_stack, create_snapshot(e))]
         IN [ed |-> restore_snapshot(e1, snap), ok |-> TRUE]

\* undo / redo return the new editor and the bool result.
undo(e) ==
    IF e.undo_stack # << >>
    THEN LET snap == e.undo_stack[Len(e.undo_stack)]
             popped == [e EXCEPT !.undo_stack = Take(e.undo_stack, Len(e.undo_stack) - 1),
                                 !.redo_stack = Append(e.redo_stack, create_snapshot(e))]
         IN [ed |-> restore_snapshot(popped, snap), ok |-> TRUE]
    ELSE [ed |-> e, ok |-> FALSE]

\* Mutant of redo: on an empty redo stack the call reports success.
redo_EmptyReturnsTrue(e) ==
    IF e.redo_stack = << >> THEN [ed |-> e, ok |-> TRUE]
    ELSE LET snap == e.redo_stack[Len(e.redo_stack)]
             e1 == [e EXCEPT !.redo_stack = Take(e.redo_stack, Len(e.redo_stack) - 1),
                             !.undo_stack = Append(e.undo_stack, create_snapshot(e))]
         IN [ed |-> restore_snapshot(e1, snap), ok |-> TRUE]

redo(e) ==
    IF e.redo_stack # << >>
    THEN LET snap == e.redo_stack[Len(e.redo_stack)]
             popped == [e EXCEPT !.redo_stack = Take(e.redo_stack, Len(e.redo_stack) - 1),
                                 !.undo_stack = Append(e.undo_stack, create_snapshot(e))]
         IN [ed |-> restore_snapshot(popped, snap), ok |-> TRUE]
    ELSE [ed |-> e, ok |-> FALSE]

\* self.lines.get(self.cursor_row)
HasLine(e) == e.cursor_row < Len(e.lines)

CurLine(e) == e.lines[e.cursor_row + 1]

current_line_len(e) == IF HasLine(e) THEN Len(CurLine(e)) ELSE 0

SetCurLine(e, l) == [e EXCEPT !.lines[e.cursor_row + 1] = l]

clamp_col(e) == [e EXCEPT !.cursor_col = Min(e.cursor_col, current_line_len(e))]

\* char_to_byte_idx followed by an insertion or split at that index: the
\* index of the char_idx-th character, or the end of the string.
char_to_byte_idx(l, char_idx) == Min(char_idx, Len(l))

move_up(e) ==
    IF e.cursor_row > 0
    THEN clamp_col([e EXCEPT !.cursor_row = e.cursor_row - 1])
    ELSE e

move_down(e) ==
    IF e.cursor_row + 1 < Len(e.lines)
    THEN clamp_col([e EXCEPT !.cursor_row = e.cursor_row + 1])
    ELSE e

move_left(e) ==
    IF e.cursor_col > 0 THEN [e EXCEPT !.cursor_col = e.cursor_col - 1]
    ELSE IF e.cursor_row > 0
    THEN LET up == [e EXCEPT !.cursor_row = e.cursor_row - 1] IN
         [up EXCEPT !.cursor_col = current_line_len(up)]
    ELSE e

move_right(e) ==
    IF e.cursor_col < current_line_len(e) THEN [e EXCEPT !.cursor_col = e.cursor_col + 1]
    ELSE IF e.cursor_row + 1 < Len(e.lines)
    THEN [e EXCEPT !.cursor_row = e.cursor_row + 1, !.cursor_col = 0]
    ELSE e

insert_char(e, c) ==
    IF HasLine(e)
    THEN [SetCurLine(e, InsertAt(CurLine(e), char_to_byte_idx(CurLine(e), e.cursor_col), c))
             EXCEPT !.cursor_col = e.cursor_col + 1]
    ELSE e

insert_newline(e) ==
    IF HasLine(e)
    THEN LET idx == char_to_byte_idx(CurLine(e), e.cursor_col)
             before == Take(CurLine(e), idx)
             after == Drop(CurLine(e), idx)
         IN [e EXCEPT !.lines = Take(e.lines, e.cursor_row) \o <<before, after>>
                                   \o Drop(e.lines, e.cursor_row + 1),
                      !.cursor_row = e.cursor_row + 1,
                      !.cursor_col = 0]
    ELSE e

\* String::remove at the end of the string panics: backspace with the cursor
\* more than one past the last character.
backspace_panics(e) ==
    \/ e.cursor_col > 0 /\ (~HasLine(e) \/ e.cursor_col - 1 >= Len(CurLine(e)))
    \/ e.cursor_col = 0 /\ e.cursor_row > 0 /\ ~HasLine(e)

backspace(e) ==
    IF e.cursor_col > 0
    THEN [SetCurLine(e, RemoveAt(CurLine(e), e.cursor_col - 1))
             EXCEPT !.cursor_col = e.cursor_col - 1]
    ELSE IF e.cursor_row > 0
    THEN LET current_line == CurLine(e)
             prev == e.lines[e.cursor_row]
         IN [e EXCEPT !.lines = Take(e.lines, e.cursor_row - 1)
                                   \o <<prev \o current_line>>
                                   \o Drop(e.lines, e.cursor_row + 1),
                      !.cursor_row = e.cursor_row - 1,
                      !.cursor_col = Len(prev)]
    ELSE e

\* Mutant of delete: at the end of a line the next line is removed and lost.
delete_DropsNextLine(e) ==
    IF e.cursor_col < current_line_len(e)
    THEN SetCurLine(e, RemoveAt(CurLine(e), e.cursor_col))
    ELSE IF e.cursor_row + 1 < Len(e.lines)
    THEN [e EXCEPT !.lines = Take(e.lines, e.cursor_row + 1)
                                \o Drop(e.lines, e.cursor_row + 2)]
    ELSE e

delete(e) ==
    IF e.cursor_col < current_line_len(e)
    THEN SetCurLine(e, RemoveAt(CurLine(e), e.cursor_col))
    ELSE IF e.cursor_row + 1 < Len(e.lines)
    THEN [e EXCEPT !.lines = Take(e.lines, e.cursor_row)
                                \o <<CurLine(e) \o e.lines[e.cursor_row + 2]>>
                                \o Drop(e.lines, e.cursor_row + 2)]
    ELSE e

move_to_line_start(e) == [e EXCEPT !.cursor_col = 0]

move_to_line_end(e) == [e EXCEPT !.cursor_col = current_line_len(e)]

RECURSIVE LeadingWhitespace(_)
LeadingWhitespace(l) ==
    IF l # << >> /\ IsWhitespace(Head(l)) THEN 1 + LeadingWhitespace(Tail(l)) ELSE 0

move_to_first_non_whitespace(e) ==
    IF HasLine(e) THEN [e EXCEPT !.cursor_col = LeadingWhitespace(CurLine(e))] ELSE e

\* while col < chars.len() && !chars[col].is_whitespace() { col += 1 }
RECURSIVE SkipWord(_, _)
SkipWord(chars, col) ==
    IF col < Len(chars) /\ ~IsWhitespace(chars[col + 1]) THEN SkipWord(chars, col + 1) ELSE col

\* while col < chars.len() && chars[col].is_whitespace() { col += 1 }
RECURSIVE SkipSpace(_, _)
SkipSpace(chars, col) ==
    IF col < Len(chars) /\ IsWhitespace(chars[col + 1]) THEN SkipSpace(chars, col + 1) ELSE col

\* Mutant of move_word_forward: the motion never leaves the line.
move_word_forward_StaysOnLine(e) ==
    IF HasLine(e)
    THEN [e EXCEPT !.cursor_col = SkipSpace(CurLine(e), SkipWord(CurLine(e), e.cursor_col))]
    ELSE e

move_word_forward(e) ==
    IF HasLine(e)
    THEN LET chars == CurLine(e)
             col == SkipSpace(chars, SkipWord(chars, e.cursor_col))
         IN IF col >= Len(chars) /\ e.cursor_row < Len(e.lines) - 1
            THEN move_to_first_non_whitespace(
                    [e EXCEPT !.cursor_row = e.cursor_row + 1, !.cursor_col = 0])
            ELSE [e EXCEPT !.cursor_col = col]
    ELSE e

\* while col > 0 && chars.get(col).is_some_and(|c| c.is_whitespace()) { col -= 1 }
RECURSIVE SkipSpaceBack(_, _)
SkipSpaceBack(chars, col) ==
    IF col > 0 /\ col < Len(chars) /\ IsWhitespace(chars[col + 1])
    THEN SkipSpaceBack(chars, col - 1) ELSE col

\* while col > 0 && chars.get(col - 1).is_some_and(|c| !c.is_whitespace()) { col -= 1 }
RECURSIVE SkipWordBack(_, _)
SkipWordBack(chars, col) ==
    IF col > 0 /\ col - 1 < Len(chars) /\ ~IsWhitespace(chars[col])
    THEN SkipWordBack(chars, col - 1) ELSE col

move_word_backward(e) ==
    LET e1 == IF e.cursor_col = 0 /\ e.cursor_row > 0
              THEN LET up == [e EXCEPT !.cursor_row = e.cursor_row - 1] IN
                   [up EXCEPT !.cursor_col = current_line_len(up)]
              ELSE e
    IN IF HasLine(e1)
       THEN LET chars == CurLine(e1)
                col0 == IF e1.cursor_col > 0 THEN e1.cursor_col - 1 ELSE 0
            IN [e1 EXCEPT !.cursor_col = SkipWordBack(chars, SkipSpaceBack(chars, col0))]
       ELSE e1

goto_first_line(e) == clamp_col([e EXCEPT !.cursor_row = 0])

goto_last_line(e) ==
    clamp_col([e EXCEPT !.cursor_row = IF Len(e.lines) > 0 THEN Len(e.lines) - 1 ELSE 0])

\* Mutant of delete_line: the only-line special case is dropped.
delete_line_RemovesLast(e) ==
    LET removed == [e EXCEPT !.lines = RemoveAt(e.lines, e.cursor_row)]
        moved == IF removed.cursor_row >= Len(removed.lines)
                 THEN [removed EXCEPT !.cursor_row =
                          IF Len(removed.lines) > 0 THEN Len(removed.lines) - 1 ELSE 0]
                 ELSE removed
    IN [ed |-> clamp_col(moved), deleted |-> Some(CurLine(e))]

\* delete_line returns the new editor and the Option<String> result.
delete_line(e) ==
    IF Len(e.lines) > 1
    THEN LET removed == [e EXCEPT !.lines = RemoveAt(e.lines, e.cursor_row)]
             moved == IF removed.cursor_row >= Len(removed.lines)
                      THEN [removed EXCEPT !.cursor_row = Len(removed.lines) - 1]
                      ELSE removed
         IN [ed |-> clamp_col(moved), deleted |-> Some(CurLine(e))]
    ELSE [ed |-> [e EXCEPT !.lines[1] = << >>, !.cursor_col = 0],
          deleted |-> Some(e.lines[1])]

open_line_below(e) ==
    [e EXCEPT !.lines = InsertAt(e.lines, e.cursor_row + 1, << >>),
              !.cursor_row = e.cursor_row + 1,
              !.cursor_col = 0]

open_line_above(e) ==
    [e EXCEPT !.lines = InsertAt(e.lines, e.cursor_row, << >>),
              !.cursor_col = 0]

get_current_line(e) == IF HasLine(e) THEN Some(CurLine(e)) ELSE None

insert_line_below(e, text) ==
    [e EXCEPT !.lines = InsertAt(e.lines, e.cursor_row + 1, text)]

replace_char(e, c) ==
    IF HasLine(e) /\ e.cursor_col < Len(CurLine(e))
    THEN SetCurLine(e, [CurLine(e) EXCEPT ![e.cursor_col + 1] = c])
    ELSE e

char_at_cursor(e) ==
    IF HasLine(e) /\ e.cursor_col < Len(CurLine(e))
    THEN Some(CurLine(e)[e.cursor_col + 1])
    ELSE None

\* while start > 0 && !chars[start - 1].is_whitespace() { start -= 1 }
RECURSIVE WordStart(_, _)
WordStart(chars, start) ==
    IF start > 0 /\ ~IsWhitespace(chars[start]) THEN WordStart(chars, start - 1) ELSE start

\* find_word_boundaries: <<start, end>>
find_word_boundaries(e, chars) ==
    <<WordStart(chars, e.cursor_col), SkipWord(chars, e.cursor_col)>>

\* delete_range: the new editor and the deleted text chars[start..end]
delete_range(e, chars, start, end) ==
    [ed |-> SetCurLine(e, Take(chars, start) \o Drop(chars, end)),
     deleted |-> SubSeq(chars, start + 1, end)]

\* Mutant of delete_inner_word: the cursor stays where it was.
delete_inner_word_KeepsCursor(e) ==
    IF ~HasLine(e) \/ CurLine(e) = << >> \/ e.cursor_col >= Len(CurLine(e))
    THEN [ed |-> e, deleted |-> None]
    ELSE LET chars == CurLine(e)
             b == find_word_boundaries(e, chars)
             r == delete_range(e, chars, b[1], b[2])
         IN [ed |-> r.ed, deleted |-> Some(r.deleted)]

\* diw
delete_inner_word(e) ==
    IF ~HasLine(e) \/ CurLine(e) = << >> \/ e.cursor_col >= Len(CurLine(e))
    THEN [ed |-> e, deleted |-> None]
    ELSE LET chars == CurLine(e)
             b == find_word_boundaries(e, chars)
             r == delete_range(e, chars, b[1], b[2])
         IN [ed |-> [r.ed EXCEPT !.cursor_col = b[1]], deleted |-> Some(r.deleted)]

\* while start > 0 && chars[start - 1].is_whitespace() { start -= 1 }
RECURSIVE SpaceStart(_, _)
SpaceStart(chars, start) ==
    IF start > 0 /\ IsWhitespace(chars[start]) THEN SpaceStart(chars, start - 1) ELSE start

\* Mutant of delete_around_word: the blanks before the word go as well as the
\* blanks after it.
delete_around_word_BothSides(e) ==
    IF ~HasLine(e) \/ CurLine(e) = << >> \/ e.cursor_col >= Len(CurLine(e))
    THEN [ed |-> e, deleted |-> None]
    ELSE LET chars == CurLine(e)
             b == find_word_boundaries(e, chars)
             end == SkipSpace(chars, b[2])
             start == SpaceStart(chars, b[1])
             r == delete_range(e, chars, start, end)
         IN [ed |-> [r.ed EXCEPT !.cursor_col = Min(start, Len(CurLine(r.ed)))],
             deleted |-> Some(r.deleted)]

\* daw
delete_around_word(e) ==
    IF ~HasLine(e) \/ CurLine(e) = << >> \/ e.cursor_col >= Len(CurLine(e))
    THEN [ed |-> e, deleted |-> None]
    ELSE LET chars == CurLine(e)
             b == find_word_boundaries(e, chars)
             orig_end == b[2]
             end == SkipSpace(chars, orig_end)
             start == IF end = orig_end /\ b[1] > 0 THEN SpaceStart(chars, b[1]) ELSE b[1]
             r == delete_range(e, chars, start, end)
         IN [ed |-> [r.ed EXCEPT !.cursor_col = Min(start, Len(CurLine(r.ed)))],
             deleted |-> Some(r.deleted)]

\* Mutant of BracketMatch_check: opening brackets on the way are not counted.
BracketMatch_check_FirstClose(depth, open, close, c) ==
    IF c = close THEN [depth |-> depth - 1, found |-> depth - 1 = 0]
    ELSE [depth |-> depth, found |-> FALSE]

\* BracketMatch::check: the depth after character c, and whether c closes the
\* bracket the search started from.
BracketMatch_check(depth, open, close, c) ==
    IF c = open THEN [depth |-> depth + 1, found |-> FALSE]
    ELSE IF c = close THEN [depth |-> depth - 1, found |-> depth - 1 = 0]
    ELSE [depth |-> depth, found |-> FALSE]

\* BracketMatch::scan_line from column col: forward over col .. len - 1,
\* backward over col .. 0 with open and close swapped.  chars[col] of the
\* backward scan is out of range for col >= len.
RECURSIVE scan_line(_, _, _, _, _, _)
scan_line(chars, col, forward, depth, open, close) ==
    IF forward
    THEN (IF col >= Len(chars) THEN [found |-> None, depth |-> depth]
          ELSE LET r == BracketMatch_check(depth, open, close, chars[col + 1]) IN
               IF r.found THEN [found |-> Some(col), depth |-> r.depth]
               ELSE scan_line(chars, col + 1, forward, r.depth, open, close))
    ELSE (IF col < 0 THEN [found |-> None, depth |-> depth]
          ELSE IF col >= Len(chars) THEN [found |-> Some("panic"), depth |-> depth]
          ELSE LET r == BracketMatch_check(depth, close, open, chars[col + 1]) IN
               IF r.found THEN [found |-> Some(col), depth |-> r.depth]
               ELSE scan_line(chars, col - 1, forward, r.depth, open, close))

\* search_bracket_forward: the loop over the rows from (row, col) on.
RECURSIVE search_bracket_forward(_, _, _, _, _, _)
search_bracket_forward(ls, row, col, depth, open, close) ==
    IF row >= Len(ls) THEN None
    ELSE LET r == scan_line(ls[row + 1], col, TRUE, depth, open, close) IN
         IF r.found # None THEN Some(<<row, r.found[1]>>)
         ELSE search_bracket_forward(ls, row + 1, 0, r.depth, open, close)

get_line_end_col(ls, row) == IF row >= 0 THEN Len(ls[row + 1]) - 1 ELSE -1

\* search_bracket_backward: the loop over the rows from (row, col) back.
RECURSIVE search_bracket_backward(_, _, _, _, _, _)
search_bracket_backward(ls, row, col, depth, open, close) ==
    IF row < 0 THEN None
    ELSE IF col < 0
    THEN search_bracket_backward(ls, row - 1, get_line_end_col(ls, row - 1),
                                 depth, open, close)
    ELSE LET r == scan_line(ls[row + 1], col, FALSE, depth, open, close) IN
         IF r.found # None THEN Some(<<row, r.found[1]>>)
         ELSE search_bracket_backward(ls, row - 1, get_line_end_col(ls, row - 1),
                                      r.depth, open, close)

\* % - find matching bracket: Some(<<row, col>>) or None
find_matching_bracket(e) ==
    LET at == char_at_cursor(e) IN
    IF at = None THEN None
    ELSE LET c == at[1]
             fwd(open, close) ==
                 search_bracket_forward(e.lines, e.cursor_row, e.cursor_col + 1,
                                        1, open, close)
             bwd(open, close) ==
                 search_bracket_backward(e.lines, e.cursor_row, e.cursor_col - 1,
                                         1, open, close)
         IN  IF c = "(" THEN fwd("(", ")")
             ELSE IF c = ")" THEN bwd("(", ")")
             ELSE IF c = "{" THEN fwd("{", "}")
             ELSE IF c = "}" THEN bwd("{", "}")
             ELSE IF c = "[" THEN fwd("[", "]")
             ELSE IF c = "]" THEN bwd("[", "]")
             ELSE IF c = "<" THEN fwd("<", ">")
             ELSE IF c = ">" THEN bwd("<", ">")
             ELSE None

\* ------------------------------------------------------------------------
\* The running program seen by the key handlers: a machine value is a record
\*   [tui    : the TuiState fields (ui/state.rs),
\*    app    : the AppState fields the editor session uses,
\*    files  : exercise index -> text of the exercise file on disk,
\*    mtimes : exercise index -> modification time of that file,
\*    signal : the Option<bool> of the last handle_key,
\*    status : "run", "quit" (loop left through Some(true)), "error" (an Err
\*             left run_tui through `?`) or "panic"].
\* The fields of TuiState that only feed the renderer (output, output_scroll,
\* frog panel, start_time) are not part of the model.
\* ------------------------------------------------------------------------
Ok(m, sig) == [m EXCEPT !.signal = sig]

Fail(m) == [m EXCEPT !.status = "error"]

Panic(m) == [m EXCEPT !.status = "panic"]

Running(m) == m.status = "run"

SetEditor(m, e) == [m EXCEPT !.tui.editor = e]

\* AppState::write on the app record
AppWrite(app) ==
    [app EXCEPT !.state_file = FileBuf(app.current_exercise_ind, app.exercises_done,
                                       app.n_exercises),
                !.n_writes = app.n_writes + 1]

\* AppState::set_status on the app record
AppSetStatus(app, i, d) ==
    [app EXCEPT !.exercises_done = SetStatusDone(app.exercises_done, i, d),
                !.n_done = SetStatusNDone(app.exercises_done, app.n_done, i, d)]

\* AppState::set_current_exercise_ind (the index is always in range here)
AppSetCurrent(app, i) ==
    IF i = app.current_exercise_ind THEN app
    ELSE AppWrite([app EXCEPT !.current_exercise_ind = i])

\* get_file_modified_time
FileModifiedTime(m, path) == Some(m.mtimes[path])

\* TuiState::reload_exercise
reload_exercise(m, env) ==
    LET path == m.app.current_exercise_ind
        m1 == [m EXCEPT !.tui.file_path = path]
    IN IF ~env.read_ok THEN Fail(m1)
       ELSE [m1 EXCEPT !.tui.editor = NewEditor(m.files[path]),
                       !.tui.modified = FALSE,
                       !.tui.solution_content = None,
                       !.tui.view_mode = "EditorOnly",
                       !.tui.last_file_modified = FileModifiedTime(m, path)]

\* Mutant of save: a failed write still clears the modified flag.
save_FailClearsModified(m, env) ==
    IF ~env.write_ok THEN Fail([m EXCEPT !.tui.modified = FALSE])
    ELSE LET m1 == [m EXCEPT !.files[m.tui.file_path] = content(m.tui.editor)] IN
         [m1 EXCEPT !.tui.modified = FALSE,
                    !.tui.last_file_modified = FileModifiedTime(m1, m.tui.file_path)]

\* TuiState::save
save(m, env) ==
    IF ~env.write_ok THEN Fail(m)
    ELSE LET m1 == [m EXCEPT !.files[m.tui.file_path] = content(m.tui.editor)] IN
         [m1 EXCEPT !.tui.modified = FALSE,
                    !.tui.last_file_modified = FileModifiedTime(m1, m.tui.file_path)]

\* The lowest index in lo .. hi-1 that is not done, as an Option.
FirstPending(dn, lo, hi) ==
    LET cand == {i \in lo .. (hi - 1) : ~dn[i]} IN
    IF cand = {} THEN None
    ELSE Some(CHOOSE i \in cand : \A j \in cand : i <= j)

\* Mutant of find_next_pending_exercise: the search does not wrap around.
find_next_pending_exercise_NoWrap(m) ==
    FirstPending(m.app.exercises_done, m.app.current_exercise_ind + 1,
                 m.app.n_exercises)

\* TuiState::find_next_pending_exercise
find_next_pending_exercise(m) ==
    LET cur == m.app.current_exercise_ind
        later == FirstPending(m.app.exercises_done, cur + 1, m.app.n_exercises)
    IN IF later # None THEN later
       ELSE FirstPending(m.app.exercises_done, 0, Min(cur, m.app.n_exercises))

\* Mutant of next_pending_exercise_ind: the search after the current exercise
\* starts at the current exercise itself.
next_pending_exercise_ind_FromCurrent(app) ==
    LET cur == app.current_exercise_ind
        later == FirstPending(app.exercises_done, cur, app.n_exercises)
    IN  IF later # None THEN later
        ELSE FirstPending(app.exercises_done, 0, cur)

\* AppState::next_pending_exercise_ind: exercises.get(next_ind..) searched for
\* the first pending exercise, or else exercises[..current_exercise_ind].
next_pending_exercise_ind(app) ==
    LET cur == app.current_exercise_ind
        later == FirstPending(app.exercises_done, cur + 1, app.n_exercises)
    IN  IF later # None THEN later
        ELSE FirstPending(app.exercises_done, 0, cur)

\* TuiState::compile
compile(m, env) ==
    LET m1 == save(m, env) IN
    IF ~Running(m1) THEN m1
    ELSE IF env.check = "err" THEN Fail(m1)
    ELSE IF env.check = "fail" THEN m1
    ELSE LET cur == m1.app.current_exercise_ind
             m2 == [m1 EXCEPT !.app = AppWrite(AppSetStatus(m1.app, cur, TRUE))]
             next == find_next_pending_exercise(m2)
         IN IF m2.tui.auto_advance /\ next # None
            THEN reload_exercise([m2 EXCEPT !.app = AppSetCurrent(m2.app, next[1])], env)
            ELSE m2

\* Mutant of check_external_file_change: a newer file is loaded over unsaved
\* edits too.
check_external_file_change_IgnoresModified(m, env) ==
    LET current_modified == FileModifiedTime(m, m.tui.file_path)
        last == m.tui.last_file_modified
    IN IF last # None /\ current_modified # None /\ current_modified[1] > last[1]
       THEN LET m1 == [m EXCEPT !.tui.last_file_modified = current_modified] IN
            IF ~env.read_ok THEN Fail(m1)
            ELSE LET m2 == SetEditor(m1, NewEditor(m.files[m.tui.file_path])) IN
                 IF m2.tui.auto_compile_on_change THEN compile(m2, env) ELSE m2
       ELSE [m EXCEPT !.tui.last_file_modified = current_modified]

\* TuiState::check_external_file_change
check_external_file_change(m, env) ==
    LET current_modified == FileModifiedTime(m, m.tui.file_path)
        last == m.tui.last_file_modified
    IN IF last # None /\ current_modified # None /\ current_modified[1] > last[1]
          /\ ~m.tui.modified
       THEN LET m1 == [m EXCEPT !.tui.last_file_modified = current_modified] IN
            IF ~env.read_ok THEN Fail(m1)
            ELSE LET m2 == SetEditor(m1, NewEditor(m.files[m.tui.file_path])) IN
                 IF m2.tui.auto_compile_on_change THEN compile(m2, env) ELSE m2
       ELSE [m EXCEPT !.tui.last_file_modified = current_modified]

\* Mutant of toggle_solution: with no solution to load an empty panel is opened.
toggle_solution_OpensEmpty(m, env) ==
    IF m.tui.view_mode = "WithSolution"
    THEN [m EXCEPT !.tui.view_mode = "EditorOnly", !.tui.solution_content = None]
    ELSE [m EXCEPT !.tui.solution_content = Some("solution"),
                   !.tui.view_mode = "WithSolution"]

\* TuiState::toggle_solution
toggle_solution(m, env) ==
    IF m.tui.view_mode = "WithSolution"
    THEN [m EXCEPT !.tui.view_mode = "EditorOnly", !.tui.solution_content = None]
    ELSE IF env.sol = "some" /\ env.read_ok
    THEN [m EXCEPT !.tui.solution_content = Some("solution"),
                   !.tui.view_mode = "WithSolution"]
    ELSE m

\* TuiState::next_exercise
next_exercise(m, env) ==
    IF m.app.current_exercise_ind < m.app.n_exercises - 1
    THEN reload_exercise(
            [m EXCEPT !.app = AppSetCurrent(m.app, m.app.current_exercise_ind + 1)], env)
    ELSE m

\* TuiState::prev_exercise
prev_exercise(m, env) ==
    IF m.app.current_exercise_ind > 0
    THEN reload_exercise(
            [m EXCEPT !.app = AppSetCurrent(m.app, m.app.current_exercise_ind - 1)], env)
    ELSE m

\* AppState::reset_current_exercise: set_pending, then the file is rewritten.
reset_current_exercise(m, env) ==
    LET cur == m.app.current_exercise_ind
        app1 == AppSetStatus(m.app, cur, FALSE)
        app2 == IF m.app.exercises_done[cur] THEN AppWrite(app1) ELSE app1
        m1 == [m EXCEPT !.app = app2]
    IN IF ~env.write_ok THEN Fail(m1)
       ELSE [m1 EXCEPT !.files[cur] = << >>]

\* ------------------------------------------------------------------------
\* Key events: [code, ch, ctrl, shift]; ch is the character of a Char key.
\* ------------------------------------------------------------------------
KeyChar(c) == [code |-> "Char", ch |-> c, ctrl |-> FALSE, shift |-> FALSE]

KeyCode(code) == [code |-> code, ch |-> "", ctrl |-> FALSE, shift |-> FALSE]

KeyCtrl(c) == [code |-> "Char", ch |-> c, ctrl |-> TRUE, shift |-> FALSE]

KeyShift(c) == [code |-> "Char", ch |-> c, ctrl |-> FALSE, shift |-> TRUE]

IsChar(key, c) == key.code = "Char" /\ key.ch = c

\* ------------------------------------------------------------------------
\* Insert mode (ui/handlers/insert.rs)
\* ------------------------------------------------------------------------
SKIP_CHARS == {")", "}", "]", "\"", "'"}

\* get_closing_pair over AUTO_PAIR
get_closing_pair(c) ==
    IF c = "(" THEN Some(")")
    ELSE IF c = "{" THEN Some("}")
    ELSE IF c = "[" THEN Some("]")
    ELSE IF c = "\"" THEN Some("\"")
    ELSE IF c = "'" THEN Some("'")
    ELSE None

get_current_indent(m) ==
    IF HasLine(m.tui.editor) THEN LeadingWhitespace(CurLine(m.tui.editor)) ELSE 0

RECURSIVE InsertSpaces(_, _)
InsertSpaces(e, n) == IF n = 0 THEN e ELSE InsertSpaces(insert_char(e, " "), n - 1)

\* Mutant of handle_ctrl_key: an undo leaves the modified flag as it was.
handle_ctrl_key_UndoKeepsFlag(m, key) ==
    IF IsChar(key, "z")
    THEN Ok([m EXCEPT !.tui.editor = undo(m.tui.editor).ed], None)
    ELSE IF IsChar(key, "Z")
    THEN LET r == redo(m.tui.editor) IN
         Ok([m EXCEPT !.tui.editor = r.ed,
                      !.tui.modified = IF r.ok THEN TRUE ELSE m.tui.modified], None)
    ELSE Ok(m, None)

handle_ctrl_key(m, key) ==
    IF IsChar(key, "z")
    THEN LET r == undo(m.tui.editor) IN
         Ok([m EXCEPT !.tui.editor = r.ed,
                      !.tui.modified = IF r.ok THEN TRUE ELSE m.tui.modified], None)
    ELSE IF IsChar(key, "Z")
    THEN LET r == redo(m.tui.editor) IN
         Ok([m EXCEPT !.tui.editor = r.ed,
                      !.tui.modified = IF r.ok THEN TRUE ELSE m.tui.modified], None)
    ELSE Ok(m, None)

handle_char(m, c) ==
    IF c \in SKIP_CHARS /\ char_at_cursor(m.tui.editor) = Some(c)
    THEN Ok(SetEditor(m, move_right(m.tui.editor)), None)
    ELSE LET e1 == save_snapshot(m.tui.editor)
             close == get_closing_pair(c)
             e2 == IF close # None
                   THEN move_left(insert_char(insert_char(e1, c), close[1]))
                   ELSE insert_char(e1, c)
         IN Ok([m EXCEPT !.tui.modified = TRUE, !.tui.editor = e2], None)

handle_tab(m) ==
    Ok([m EXCEPT !.tui.modified = TRUE,
                 !.tui.editor = InsertSpaces(save_snapshot(m.tui.editor), 4)], None)

handle_enter(m) ==
    LET e1 == save_snapshot(m.tui.editor)
        indent == get_current_indent(m)
    IN Ok([m EXCEPT !.tui.modified = TRUE,
                    !.tui.editor = InsertSpaces(insert_newline(e1), indent)], None)

handle_backspace(m) ==
    LET e1 == save_snapshot(m.tui.editor) IN
    IF backspace_panics(e1)
    THEN Panic([m EXCEPT !.tui.modified = TRUE, !.tui.editor = e1])
    ELSE Ok([m EXCEPT !.tui.modified = TRUE, !.tui.editor = backspace(e1)], None)

handle_delete(m) ==
    Ok([m EXCEPT !.tui.modified = TRUE,
                 !.tui.editor = delete(save_snapshot(m.tui.editor))], None)

handle_insert_mode(m, key) ==
    IF key.ctrl THEN handle_ctrl_key(m, key)
    ELSE IF key.code = "Esc" THEN Ok([m EXCEPT !.tui.mode = "Normal"], None)
    ELSE IF key.code = "Char" THEN handle_char(m, key.ch)
    ELSE IF key.code = "Tab" THEN handle_tab(m)
    ELSE IF key.code = "Enter" THEN handle_enter(m)
    ELSE IF key.code = "Backspace" THEN handle_backspace(m)
    ELSE IF key.code = "Delete" THEN handle_delete(m)
    ELSE IF key.code = "Left" THEN Ok(SetEditor(m, move_left(m.tui.editor)), None)
    ELSE IF key.code = "Right" THEN Ok(SetEditor(m, move_right(m.tui.editor)), None)
    ELSE IF key.code = "Up" THEN Ok(SetEditor(m, move_up(m.tui.editor)), None)
    ELSE IF key.code = "Down" THEN Ok(SetEditor(m, move_down(m.tui.editor)), None)
    ELSE Ok(m, None)

\* ------------------------------------------------------------------------
\* Command mode (ui/handlers/command.rs, ui/commands.rs)
\* ------------------------------------------------------------------------
RECURSIVE TrimStart(_)
TrimStart(t) == IF t # << >> /\ IsWhitespace(Head(t)) THEN TrimStart(Tail(t)) ELSE t

RECURSIVE TrimEnd(_)
TrimEnd(t) ==
    IF t # << >> /\ IsWhitespace(t[Len(t)]) THEN TrimEnd(Take(t, Len(t) - 1)) ELSE t

\* A step that may fail: continue with f's result only while running.
Then(m, sig) == IF Running(m) THEN Ok(m, sig) ELSE m

execute_command(m, cmd, env) ==
    LET c == TrimEnd(TrimStart(cmd)) IN
    IF c = <<"w">> THEN Then(save(m, env), Some(FALSE))
    ELSE IF c = <<"q">>
    THEN (IF m.tui.modified THEN Ok(m, Some(FALSE)) ELSE Ok(m, Some(TRUE)))
    ELSE IF c = <<"q", "!">> THEN Ok(m, Some(TRUE))
    ELSE IF c = <<"w", "q">> \/ c = <<"x">> THEN Then(save(m, env), Some(TRUE))
    ELSE IF c = <<"c">> THEN Then(compile(m, env), Some(FALSE))
    ELSE IF c = <<"h">> \/ c = <<"h", "i", "n", "t">> THEN Ok(m, Some(FALSE))
    ELSE IF c = <<"s">> \/ c = <<"s", "o", "l">>
            \/ c = <<"s", "o", "l", "u", "t", "i", "o", "n">>
    THEN Ok(toggle_solution(m, env), Some(FALSE))
    ELSE IF c = <<"n">> \/ c = <<"n", "e", "x", "t">>
    THEN Then(next_exercise(m, env), Some(FALSE))
    ELSE IF c = <<"p">> \/ c = <<"p", "r", "e", "v">>
    THEN Then(prev_exercise(m, env), Some(FALSE))
    ELSE IF c = <<"a", "u", "t", "o">>
    THEN Ok([m EXCEPT !.tui.auto_advance = ~m.tui.auto_advance], Some(FALSE))
    ELSE IF c = <<"w", "a", "t", "c", "h">>
    THEN Ok([m EXCEPT !.tui.auto_compile_on_change = ~m.tui.auto_compile_on_change],
            Some(FALSE))
    ELSE IF c = <<"r">> \/ c = <<"r", "e", "l", "o", "a", "d">>
    THEN Then(reload_exercise(m, env), Some(FALSE))
    ELSE IF c = <<"r", "e", "s", "e", "t">>
    THEN LET m1 == reset_current_exercise(m, env) IN
         IF Running(m1) THEN Then(reload_exercise(m1, env), Some(FALSE)) ELSE m1
    ELSE IF c = <<"h", "e", "l", "p">>
    THEN Ok([m EXCEPT !.tui.view_mode = "HelpModal"], Some(FALSE))
    ELSE Ok(m, Some(FALSE))

\* Mutant of handle_command_mode: Enter executes the command and stays in
\* Command mode.
handle_command_mode_StaysInCommand(m, key, env) ==
    IF key.code = "Enter"
    THEN execute_command(m, m.tui.command_buffer, env)
    ELSE IF key.code = "Esc" THEN Ok([m EXCEPT !.tui.mode = "Normal"], None)
    ELSE IF key.code = "Backspace"
    THEN LET popped == Take(m.tui.command_buffer, Len(m.tui.command_buffer) - 1) IN
         Ok([m EXCEPT !.tui.command_buffer = popped,
                      !.tui.mode = IF popped = << >> THEN "Normal" ELSE m.tui.mode], None)
    ELSE IF key.code = "Char"
    THEN Ok([m EXCEPT !.tui.command_buffer = Append(m.tui.command_buffer, key.ch)], None)
    ELSE Ok(m, None)

handle_command_mode(m, key, env) ==
    IF key.code = "Enter"
    THEN execute_command([m EXCEPT !.tui.mode = "Normal"], m.tui.command_buffer, env)
    ELSE IF key.code = "Esc" THEN Ok([m EXCEPT !.tui.mode = "Normal"], None)
    ELSE IF key.code = "Backspace"
    THEN LET popped == Take(m.tui.command_buffer, Len(m.tui.command_buffer) - 1) IN
         Ok([m EXCEPT !.tui.command_buffer = popped,
                      !.tui.mode = IF popped = << >> THEN "Normal" ELSE m.tui.mode], None)
    ELSE IF key.code = "Char"
    THEN Ok([m EXCEPT !.tui.command_buffer = Append(m.tui.command_buffer, key.ch)], None)
    ELSE Ok(m, None)

\* ------------------------------------------------------------------------
\* Visual mode (ui/handlers/visual.rs, ui/render/editor.rs)
\* ------------------------------------------------------------------------
\* get_selection_bounds: <<start_row, start_col, end_row, end_col>>
get_selection_bounds(m) ==
    LET cur_row == m.tui.editor.cursor_row
        cur_col == m.tui.editor.cursor_col
        start_row == m.tui.visual_start_row
        start_col == m.tui.visual_start_col
    IN IF start_row < cur_row \/ (start_row = cur_row /\ start_col <= cur_col)
       THEN <<start_row, start_col, cur_row, cur_col>>
       ELSE <<cur_row, cur_col, start_row, start_col>>

\* The rows start_row ..= end_row of the multi-line branch of get_visual_selection.
RECURSIVE SelectRows(_, _, _, _, _, _)
SelectRows(ls, row, start_row, start_col, end_row, end_col) ==
    IF row > end_row THEN << >>
    ELSE LET rest == SelectRows(ls, row + 1, start_row, start_col, end_row, end_col)
             piece == IF row >= Len(ls) THEN << >>
                      ELSE IF row = start_row
                      THEN Drop(ls[row + 1], Min(start_col, Len(ls[row + 1]))) \o <<"\n">>
                      ELSE IF row = end_row
                      THEN Take(ls[row + 1], Min(end_col + 1, Len(ls[row + 1])))
                      ELSE ls[row + 1] \o <<"\n">>
         IN piece \o rest

get_visual_selection(m) ==
    LET b == get_selection_bounds(m)
        ls == m.tui.editor.lines
    IN IF b[1] = b[3]
       THEN (IF b[1] < Len(ls)
             THEN LET chars == ls[b[1] + 1]
                      start == Min(b[2], Len(chars))
                      end == Min(b[4] + 1, Len(chars))
                  IN SubSeq(chars, start + 1, end)
             ELSE << >>)
       ELSE SelectRows(ls, b[1], b[1], b[2], b[3], b[4])

\* for _ in start_row..end_row { if start_row + 1 < lines.len() { lines.remove(start_row + 1) } }
RECURSIVE RemoveRowsAfter(_, _, _)
RemoveRowsAfter(ls, start_row, n) ==
    IF n = 0 THEN ls
    ELSE RemoveRowsAfter(IF start_row + 1 < Len(ls) THEN RemoveAt(ls, start_row + 1) ELSE ls,
                         start_row, n - 1)

\* visual::delete_visual_selection
delete_visual_selection(m) ==
    LET b == get_selection_bounds(m)
        ls == m.tui.editor.lines
        m1 == [m EXCEPT !.tui.yank_buffer = Some(get_visual_selection(m)),
                        !.tui.modified = TRUE]
        ls1 == IF b[1] = b[3]
               THEN (IF b[1] < Len(ls)
                     THEN LET chars == ls[b[1] + 1]
                              start == Min(b[2], Len(chars))
                              end == Min(b[4] + 1, Len(chars))
                          IN [ls EXCEPT ![b[1] + 1] = Take(chars, start) \o Drop(chars, end)]
                     ELSE ls)
               ELSE LET first_part == IF b[1] < Len(ls)
                                      THEN Take(ls[b[1] + 1], Min(b[2], Len(ls[b[1] + 1])))
                                      ELSE << >>
                        last_part == IF b[3] < Len(ls)
                                     THEN Drop(ls[b[3] + 1], Min(b[4] + 1, Len(ls[b[3] + 1])))
                                     ELSE << >>
                        removed == RemoveRowsAfter(ls, b[1], b[3] - b[1])
                    IN IF b[1] < Len(removed)
                       THEN [removed EXCEPT ![b[1] + 1] = first_part \o last_part]
                       ELSE removed
    IN [m1 EXCEPT !.tui.editor.lines = ls1,
                  !.tui.editor.cursor_row = b[1],
                  !.tui.editor.cursor_col = b[2]]

handle_visual_mode(m, key) ==
    IF key.code = "Esc" THEN Ok([m EXCEPT !.tui.mode = "Normal"], None)
    ELSE IF IsChar(key, "h") \/ key.code = "Left"
    THEN Ok(SetEditor(m, move_left(m.tui.editor)), None)
    ELSE IF IsChar(key, "j") \/ key.code = "Down"
    THEN Ok(SetEditor(m, move_down(m.tui.editor)), None)
    ELSE IF IsChar(key, "k") \/ key.code = "Up"
    THEN Ok(SetEditor(m, move_up(m.tui.editor)), None)
    ELSE IF IsChar(key, "l") \/ key.code = "Right"
    THEN Ok(SetEditor(m, move_right(m.tui.editor)), None)
    ELSE IF IsChar(key, "0") \/ key.code = "Home"
    THEN Ok(SetEditor(m, move_to_line_start(m.tui.editor)), None)
    ELSE IF IsChar(key, "$") \/ key.code = "End"
    THEN Ok(SetEditor(m, move_to_line_end(m.tui.editor)), None)
    ELSE IF IsChar(key, "y")
    THEN Ok([m EXCEPT !.tui.yank_buffer = Some(get_visual_selection(m)),
                      !.tui.mode = "Normal"], None)
    ELSE IF IsChar(key, "d")
    THEN Ok([delete_visual_selection(m) EXCEPT !.tui.mode = "Normal"], None)
    ELSE Ok(m, None)

\* ------------------------------------------------------------------------
\* Normal mode (ui/handlers/normal/*.rs)
\* ------------------------------------------------------------------------
ClearPending(m) == [m EXCEPT !.tui.pending_keys = << >>]

YankIfSome(m, deleted) ==
    IF deleted # None THEN [m EXCEPT !.tui.yank_buffer = Some(deleted[1])] ELSE m

\* text_objects::handle_pending_keys
\* Mutant of handle_pending_keys: ciw enters Insert mode with c, i still pending.
handle_pending_keys_ChangeKeepsPending(m, key_char) ==
    LET pending == m.tui.pending_keys
        cleared == ClearPending(m)
        snapped == [cleared EXCEPT !.tui.modified = TRUE,
                                   !.tui.editor = save_snapshot(m.tui.editor)]
    IN IF pending = <<"d">> /\ key_char = "d"
       THEN LET r == delete_line(snapped.tui.editor) IN
            Ok(YankIfSome(SetEditor(snapped, r.ed), r.deleted), None)
       ELSE IF pending = <<"y">> /\ key_char = "y"
       THEN Ok(YankIfSome(cleared, get_current_line(m.tui.editor)), None)
       ELSE IF pending = <<"r">>
       THEN Ok(SetEditor(snapped, replace_char(snapped.tui.editor, key_char)), None)
       ELSE IF (pending = <<"d">> \/ pending = <<"c">>) /\ key_char \in {"a", "i"}
       THEN Ok([m EXCEPT !.tui.pending_keys = Append(pending, key_char)], None)
       ELSE IF pending = <<"d", "a">> /\ key_char = "w"
       THEN LET r == delete_around_word(snapped.tui.editor) IN
            Ok(YankIfSome(SetEditor(snapped, r.ed), r.deleted), None)
       ELSE IF pending = <<"d", "i">> /\ key_char = "w"
       THEN LET r == delete_inner_word(snapped.tui.editor) IN
            Ok(YankIfSome(SetEditor(snapped, r.ed), r.deleted), None)
       ELSE IF pending = <<"c", "a">> /\ key_char = "w"
       THEN LET r == delete_around_word(snapped.tui.editor) IN
            Ok([YankIfSome(SetEditor(snapped, r.ed), r.deleted)
                   EXCEPT !.tui.mode = "Insert"], None)
       ELSE IF pending = <<"c", "i">> /\ key_char = "w"
       THEN LET r == delete_inner_word(snapped.tui.editor) IN
            Ok([YankIfSome(SetEditor(snapped, r.ed), r.deleted)
                   EXCEPT !.tui.mode = "Insert", !.tui.pending_keys = pending], None)
       ELSE IF pending = <<"g">> /\ key_char = "g"
       THEN Ok(SetEditor(cleared, goto_first_line(m.tui.editor)), None)
       ELSE Ok(cleared, None)

handle_pending_keys(m, key_char) ==
    LET pending == m.tui.pending_keys
        cleared == ClearPending(m)
        snapped == [cleared EXCEPT !.tui.modified = TRUE,
                                   !.tui.editor = save_snapshot(m.tui.editor)]
    IN IF pending = <<"d">> /\ key_char = "d"
       THEN LET r == delete_line(snapped.tui.editor) IN
            Ok(YankIfSome(SetEditor(snapped, r.ed), r.deleted), None)
       ELSE IF pending = <<"y">> /\ key_char = "y"
       THEN Ok(YankIfSome(cleared, get_current_line(m.tui.editor)), None)
       ELSE IF pending = <<"r">>
       THEN Ok(SetEditor(snapped, replace_char(snapped.tui.editor, key_char)), None)
       ELSE IF (pending = <<"d">> \/ pending = <<"c">>) /\ key_char \in {"a", "i"}
       THEN Ok([m EXCEPT !.tui.pending_keys = Append(pending, key_char)], None)
       ELSE IF pending = <<"d", "a">> /\ key_char = "w"
       THEN LET r == delete_around_word(snapped.tui.editor) IN
            Ok(YankIfSome(SetEditor(snapped, r.ed), r.deleted), None)
       ELSE IF pending = <<"d", "i">> /\ key_char = "w"
       THEN LET r == delete_inner_word(snapped.tui.editor) IN
            Ok(YankIfSome(SetEditor(snapped, r.ed), r.deleted), None)
       ELSE IF pending = <<"c", "a">> /\ key_char = "w"
       THEN LET r == delete_around_word(snapped.tui.editor) IN
            Ok([YankIfSome(SetEditor(snapped, r.ed), r.deleted)
                   EXCEPT !.tui.mode = "Insert"], None)
       ELSE IF pending = <<"c", "i">> /\ key_char = "w"
       THEN LET r == delete_inner_word(snapped.tui.editor) IN
            Ok([YankIfSome(SetEditor(snapped, r.ed), r.deleted)
                   EXCEPT !.tui.mode = "Insert"], None)
       ELSE IF pending = <<"g">> /\ key_char = "g"
       THEN Ok(SetEditor(cleared, goto_first_line(m.tui.editor)), None)
       ELSE Ok(cleared, None)

\* navigation::handle_navigation
NavigationKey(key) ==
    \/ key.code = "Char" /\ key.ch \in {"h", "j", "k", "l", "w", "b", "0", "$", "G"}
    \/ key.code \in {"Left", "Right", "Up", "Down", "Home", "End"}

handle_navigation(m, key) ==
    LET e == m.tui.editor IN
    IF IsChar(key, "h") \/ key.code = "Left" THEN Ok(SetEditor(m, move_left(e)), None)
    ELSE IF IsChar(key, "j") \/ key.code = "Down" THEN Ok(SetEditor(m, move_down(e)), None)
    ELSE IF IsChar(key, "k") \/ key.code = "Up" THEN Ok(SetEditor(m, move_up(e)), None)
    ELSE IF IsChar(key, "l") \/ key.code = "Right" THEN Ok(SetEditor(m, move_right(e)), None)
    ELSE IF IsChar(key, "0") \/ key.code = "Home"
    THEN Ok(SetEditor(m, move_to_line_start(e)), None)
    ELSE IF IsChar(key, "$") \/ key.code = "End"
    THEN Ok(SetEditor(m, move_to_line_end(e)), None)
    ELSE IF IsChar(key, "w") THEN Ok(SetEditor(m, move_word_forward(e)), None)
    ELSE IF IsChar(key, "b") THEN Ok(SetEditor(m, move_word_backward(e)), None)
    ELSE IF IsChar(key, "G") THEN Ok(SetEditor(m, goto_last_line(e)), None)
    ELSE Ok(m, None)

\* p with a single-line register: for c in text.chars() { insert_char(c) }
RECURSIVE InsertChars(_, _)
InsertChars(e, text) ==
    IF text = << >> THEN e ELSE InsertChars(insert_char(e, Head(text)), Tail(text))

\* editing::handle_editing
EditingKey(key) == key.code = "Char" /\ key.ch \in {"i", "A", "o", "O", "x", "p"}

handle_editing(m, key) ==
    LET e == m.tui.editor IN
    IF IsChar(key, "i") THEN Ok([m EXCEPT !.tui.mode = "Insert"], None)
    ELSE IF IsChar(key, "A")
    THEN Ok([m EXCEPT !.tui.editor = move_to_line_end(e), !.tui.mode = "Insert"], None)
    ELSE IF IsChar(key, "o")
    THEN Ok([m EXCEPT !.tui.modified = TRUE, !.tui.editor = open_line_below(e),
                      !.tui.mode = "Insert"], None)
    ELSE IF IsChar(key, "O")
    THEN Ok([m EXCEPT !.tui.modified = TRUE, !.tui.editor = open_line_above(e),
                      !.tui.mode = "Insert"], None)
    ELSE IF IsChar(key, "x")
    THEN Ok([m EXCEPT !.tui.modified = TRUE, !.tui.editor = delete(e)], None)
    ELSE IF IsChar(key, "p")
    THEN (IF m.tui.yank_buffer # None
          THEN LET text == m.tui.yank_buffer[1] IN
               Ok([m EXCEPT !.tui.modified = TRUE,
                            !.tui.editor = IF \E k \in 1 .. Len(text) : text[k] = "\n"
                                           THEN insert_line_below(e, TrimEnd(text))
                                           ELSE InsertChars(e, text)], None)
          ELSE Ok(m, None))
    ELSE Ok(m, None)

\* handle_ctrl_keys
handle_ctrl_keys(m, key) ==
    IF IsChar(key, "o")
    THEN Ok([m EXCEPT !.tui.view_mode = IF m.tui.view_mode = "ExpandedOutput"
                                        THEN "EditorOnly" ELSE "ExpandedOutput"], None)
    ELSE Ok(m, None)

\* handle_shift_keys (the frog-panel and output-scroll keys change renderer state only)
handle_shift_keys(m, key) ==
    LET e == m.tui.editor IN
    IF IsChar(key, "A")
    THEN Ok([m EXCEPT !.tui.editor = move_to_line_end(e), !.tui.mode = "Insert"], None)
    ELSE IF IsChar(key, "G") THEN Ok(SetEditor(m, goto_last_line(e)), None)
    ELSE IF IsChar(key, "O")
    THEN Ok([m EXCEPT !.tui.modified = TRUE, !.tui.editor = open_line_above(e),
                      !.tui.mode = "Insert"], None)
    ELSE Ok(m, None)

\* The final match of handle_normal_mode.
handle_remaining(m, key, env) ==
    IF IsChar(key, ":")
    THEN Ok([m EXCEPT !.tui.mode = "Command", !.tui.command_buffer = << >>], None)
    ELSE IF IsChar(key, "v")
    THEN Ok([m EXCEPT !.tui.mode = "Visual",
                      !.tui.visual_start_row = m.tui.editor.cursor_row,
                      !.tui.visual_start_col = m.tui.editor.cursor_col], None)
    ELSE IF IsChar(key, "s") THEN Ok(toggle_solution(m, env), None)
    ELSE IF key.code = "Char" /\ key.ch \in {"g", "d", "y", "r", "c"}
    THEN Ok([m EXCEPT !.tui.pending_keys = Append(@, key.ch)], None)
    ELSE IF IsChar(key, "]") THEN Then(next_exercise(m, env), None)
    ELSE IF IsChar(key, "[") THEN Then(prev_exercise(m, env), None)
    ELSE IF IsChar(key, "q") THEN Ok(m, Some(TRUE))
    ELSE Ok(m, None)

handle_normal_mode(m, key, env) ==
    IF m.tui.view_mode = "HelpModal"
    THEN Ok([m EXCEPT !.tui.view_mode = "EditorOnly"], None)
    ELSE IF m.tui.pending_keys # << >> /\ key.code = "Char"
    THEN handle_pending_keys(m, key.ch)
    ELSE LET m1 == IF m.tui.pending_keys # << >> THEN ClearPending(m) ELSE m IN
         IF key.ctrl THEN handle_ctrl_keys(m1, key)
         ELSE IF key.shift THEN handle_shift_keys(m1, key)
         ELSE IF NavigationKey(key) THEN handle_navigation(m1, key)
         ELSE IF EditingKey(key) THEN handle_editing(m1, key)
         ELSE handle_remaining(m1, key, env)

\* tui::handle_key
handle_key(m, key, env) ==
    IF m.tui.mode = "Normal" THEN handle_normal_mode(m, key, env)
    ELSE IF m.tui.mode = "Insert" THEN handle_insert_mode(m, key)
    ELSE IF m.tui.mode = "Command" THEN handle_command_mode(m, key, env)
    ELSE handle_visual_mode(m, key)

\* ------------------------------------------------------------------------
\* run_tui (ui/tui.rs): the event loop over the handlers above
\* ------------------------------------------------------------------------
\* The machine record the handler operators work on, read from the variables.
Mach ==
    [tui |-> tui,
     app |-> [n_exercises |-> n_exercises,
              exercises_done |-> exercises_done,
              n_done |-> n_done,
              current_exercise_ind |-> current_exercise_ind,
              state_file |-> state_file,
              n_writes |-> n_writes],
     files |-> files,
     mtimes |-> mtimes,
     signal |-> signal,
     status |-> status]

\* The variables after a handler returned machine m2.
Apply(m2) ==
    /\ tui' = m2.tui
    /\ n_exercises' = m2.app.n_exercises
    /\ exercises_done' = m2.app.exercises_done
    /\ n_done' = m2.app.n_done
    /\ current_exercise_ind' = m2.app.current_exercise_ind
    /\ state_file' = m2.app.state_file
    /\ n_writes' = m2.app.n_writes
    /\ files' = m2.files
    /\ mtimes' = m2.mtimes
    /\ signal' = m2.signal
    /\ status' = IF m2.status = "run" /\ m2.signal = Some(TRUE) THEN "quit" ELSE m2.status

\* The scheduler is not running while the TUI is.
SchedIdle ==
    /\ mpc = "idle"
    /\ n_threads = 1
    /\ spawned = 0
    /\ next_exercise_ind = 0
    /\ progresses = << >>
    /\ chan = << >>
    /\ wpc = << >>
    /\ widx = << >>
    /\ wprog = << >>
    /\ exercise_ind = 0
    /\ first_pending = None
    /\ ret = None
    /\ par_result = << >>
    /\ retry_result = << >>
    /\ n_invoked = << >>

\* TuiState::new on exercise `cur` of n exercises whose files hold `texts`.
TuiInit(n, cur, dn, texts) ==
    /\ n_exercises = n
    /\ exercise_names = InfoNames(n)
    /\ exercises_done = dn
    /\ n_done = CountDone(dn, n)
    /\ current_exercise_ind = cur
    /\ state_file = FileBuf(cur, dn, n)
    /\ n_writes = 0
    /\ files = texts
    /\ mtimes = [i \in 0 .. (n - 1) |-> 0]
    /\ tui = [editor |-> NewEditor(texts[cur]),
              solution_content |-> None,
              mode |-> "Normal",
              view_mode |-> "EditorOnly",
              command_buffer |-> << >>,
              modified |-> FALSE,
              file_path |-> cur,
              auto_advance |-> TRUE,
              last_file_modified |-> Some(0),
              auto_compile_on_change |-> TRUE,
              yank_buffer |-> None,
              pending_keys |-> << >>,
              visual_start_row |-> 0,
              visual_start_col |-> 0]
    /\ signal = None
    /\ status = "run"
    /\ last_event = None
    /\ n_events = 0
    /\ SchedIdle

\* What the collaborators (file system, cargo) answer during one event.
Envs ==
    [read_ok : BOOLEAN, write_ok : BOOLEAN,
     check : {"pass", "fail", "err"}, sol : {"some", "none", "err"}]

EnvAllOk == [read_ok |-> TRUE, write_ok |-> TRUE, check |-> "pass", sol |-> "some"]

Event(kind, key) == Some([kind |-> kind, key |-> key, mode |-> tui.mode])

\* Event::Key(key) while state.mode = mode, the key drawn from keys.
KeyEvent(mode, keys, envs) ==
    /\ status = "run"
    /\ tui.mode = mode
    /\ \E key \in keys, env \in envs :
         /\ Apply(handle_key(Mach, key, env))
         /\ last_event' = Event("key", key)
    /\ UNCHANGED <<schedVars, exercise_names>>

\* ------------------------------------------------------------------------
\* done_current_exercise: the current exercise is marked done, then either the
\* next pending exercise becomes current or the bulk check runs
\* ------------------------------------------------------------------------
DoneInit ==
    /\ n_exercises \in 1 .. MaxExercises
    /\ exercise_names = InfoNames(n_exercises)
    /\ exercises_done \in [ExIndices -> BOOLEAN]
    /\ n_done = CountDone(exercises_done, n_exercises)
    /\ current_exercise_ind \in ExIndices
    /\ state_file = FileBuf(current_exercise_ind, exercises_done, n_exercises)
    /\ n_writes = 0
    /\ mpc = "call"
    /\ n_threads \in 1 .. MaxWorkers
    /\ spawned = 0
    /\ next_exercise_ind = 0
    /\ progresses = [i \in ExIndices |-> "None"]
    /\ chan = << >>
    /\ wpc = [w \in 1 .. n_threads |-> "unspawned"]
    /\ widx = [w \in 1 .. n_threads |-> 0]
    /\ wprog = [w \in 1 .. n_threads |-> "None"]
    /\ exercise_ind = 0
    /\ first_pending = None
    /\ ret = None
    /\ par_result = [i \in ExIndices |-> None]
    /\ retry_result = [i \in ExIndices |-> None]
    /\ n_invoked = [i \in ExIndices |-> 0]
    /\ TuiNotStarted

\* Mutant of DoneCurrentMark: the current exercise is not marked done.
DoneCurrentMark_NoMark ==
    /\ mpc = "call"
    /\ LET next == next_pending_exercise_ind(Mach.app)
           app2 == IF next # None THEN AppSetCurrent(Mach.app, next[1]) ELSE Mach.app
       IN  /\ exercises_done' = app2.exercises_done
           /\ n_done' = app2.n_done
           /\ current_exercise_ind' = app2.current_exercise_ind
           /\ state_file' = app2.state_file
           /\ n_writes' = app2.n_writes
           /\ mpc' = IF next # None THEN "finished" ELSE "idle"
           /\ ret' = IF next # None THEN Some([kind |-> "Ok", val |-> "NewPending"])
                     ELSE ret
    /\ UNCHANGED <<n_exercises, n_threads, spawned, next_exercise_ind, progresses,
                   chan, wpc, widx, wprog, exercise_ind, first_pending, par_result,
                   retry_result, n_invoked, tuiVars, exercise_names>>

\* done_current_exercise up to its first return or to the call of
\* check_all_exercises: exercise.done = true; n_done += 1; then
\* set_current_exercise_ind(ind) and NewPending when an exercise is pending.
DoneCurrentMark ==
    /\ mpc = "call"
    /\ LET app1 == AppSetStatus(Mach.app, current_exercise_ind, TRUE)
           next == next_pending_exercise_ind(app1)
           app2 == IF next # None THEN AppSetCurrent(app1, next[1]) ELSE app1
       IN  /\ exercises_done' = app2.exercises_done
           /\ n_done' = app2.n_done
           /\ current_exercise_ind' = app2.current_exercise_ind
           /\ state_file' = app2.state_file
           /\ n_writes' = app2.n_writes
           /\ mpc' = IF next # None THEN "finished" ELSE "idle"
           /\ ret' = IF next # None THEN Some([kind |-> "Ok", val |-> "NewPending"])
                     ELSE ret
    /\ UNCHANGED <<n_exercises, n_threads, spawned, next_exercise_ind, progresses,
                   chan, wpc, widx, wprog, exercise_ind, first_pending, par_result,
                   retry_result, n_invoked, tuiVars, exercise_names>>

\* check_all_exercises(stdout)? has returned: an error is passed on, a first
\* pending exercise becomes current (NewPending), otherwise AllDone.
DoneCurrentAfterCheck ==
    /\ mpc = "returned"
    /\ mpc' = "finished"
    /\ LET app2 == IF ret[1].kind = "Ok" /\ ret[1].val # None
                   THEN AppSetCurrent(Mach.app, ret[1].val[1]) ELSE Mach.app
       IN  /\ current_exercise_ind' = app2.current_exercise_ind
           /\ state_file' = app2.state_file
           /\ n_writes' = app2.n_writes
    /\ ret' = IF ret[1].kind = "Err" THEN ret
              ELSE IF ret[1].val # None THEN Some([kind |-> "Ok", val |-> "NewPending"])
              ELSE Some([kind |-> "Ok", val |-> "AllDone"])
    /\ UNCHANGED <<n_exercises, exercises_done, n_done, n_threads, spawned,
                   next_exercise_ind, progresses, chan, wpc, widx, wprog,
                   exercise_ind, first_pending, par_result, retry_result,
                   n_invoked, tuiVars, exercise_names>>

DoneNext ==
    \/ DoneCurrentMark
    \/ SchedNext
    \/ DoneCurrentAfterCheck

SpecDone == DoneInit /\ [][DoneNext]_vars

\* ------------------------------------------------------------------------
\* Progress-record sessions: AppState calls, restarts of the program, an info
\* file whose exercises were reordered, a state file cut short
\* ------------------------------------------------------------------------
\* AppState::set_pending on the app record
AppSetPending(app, i) ==
    IF app.exercises_done[i] THEN AppWrite(AppSetStatus(app, i, FALSE)) ELSE app

\* AppState::new: the in-memory state is what parse_state_file reads from buf.
AppLoad(buf, names) ==
    LET r == parse_state_file(buf, names, n_exercises)
    IN  /\ current_exercise_ind' = r.current_exercise_ind
        /\ exercises_done' = r.exercises_done
        /\ n_done' = r.n_done
        /\ state_file' = buf
        /\ exercise_names' = names
        /\ UNCHANGED <<n_exercises, n_writes>>

\* One step of a progress-record session, remembered as the event handled last.
SessStep(kind) ==
    /\ n_events < MaxSessEvents
    /\ n_events' = n_events + 1
    /\ last_event' = Some([kind |-> kind])
    /\ UNCHANGED <<schedVars, tui, files, mtimes, signal, status, script>>

SessInit ==
    /\ \E n \in 1 .. MaxExercises :
         \E cur \in 0 .. (n - 1), dn \in [0 .. (n - 1) -> BOOLEAN] :
            /\ n_exercises = n
            /\ exercise_names = InfoNames(n)
            /\ exercises_done = dn
            /\ n_done = CountDone(dn, n)
            /\ current_exercise_ind = cur
            /\ state_file = FileBuf(cur, dn, n)
            /\ n_writes = 0
    /\ TuiNotStarted
    /\ SchedIdle

\* set_current_exercise_ind(i), set_pending(i), or the set_status(current, true)
\* and write() of a successful compile
SessCall ==
    /\ \E app2 \in {AppSetCurrent(Mach.app, i) : i \in ExIndices}
                  \cup {AppSetPending(Mach.app, i) : i \in ExIndices}
                  \cup {AppWrite(AppSetStatus(Mach.app, current_exercise_ind, TRUE))} :
         /\ exercises_done' = app2.exercises_done
         /\ n_done' = app2.n_done
         /\ current_exercise_ind' = app2.current_exercise_ind
         /\ state_file' = app2.state_file
         /\ n_writes' = app2.n_writes
    /\ UNCHANGED <<n_exercises, exercise_names>>
    /\ SessStep("call")

\* The program is started again on the same info file.
SessRestart ==
    /\ AppLoad(state_file, exercise_names)
    /\ SessStep("restart")

\* The exercises of the info file are reordered, then the program is started.
SessReorder ==
    /\ \E f \in [ExIndices -> ExIndices] :
         /\ \A i, j \in ExIndices : f[i] = f[j] => i = j
         /\ AppLoad(state_file, [i \in ExIndices |-> InfoNames(n_exercises)[f[i]]])
    /\ SessStep("reorder")

\* The state file is cut short (a proper prefix is left), then the program is
\* started.
SessLoadTruncated ==
    /\ \E k \in 0 .. (Len(state_file) - 1) :
         AppLoad(SubSeq(state_file, 1, k), exercise_names)
    /\ SessStep("truncated")

SessNext ==
    \/ SessCall
    \/ SessRestart
    \/ SessReorder
    \/ SessLoadTruncated

SpecSess == SessInit /\ [][SessNext]_vars

\* ------------------------------------------------------------------------
\* Next pending exercise: both searches applied to every done vector and
\* every current index
\* ------------------------------------------------------------------------
PendInit == SessInit

\* The result of a search is remembered as the event handled last.
PendApply(name, result) ==
    /\ last_event' = Some([kind |-> name, result |-> result])
    /\ UNCHANGED <<schedVars, tui, files, mtimes, signal, status, script, n_events>>

PendFind ==
    /\ PendApply("find_next_pending_exercise", find_next_pending_exercise(Mach))
    /\ UNCHANGED <<appVars, exercise_names>>

PendNextInd ==
    /\ PendApply("next_pending_exercise_ind", next_pending_exercise_ind(Mach.app))
    /\ UNCHANGED <<appVars, exercise_names>>

\* set_status(i, d) between two searches
PendSetStatus ==
    /\ \E i \in ExIndices, d \in BOOLEAN :
         LET app2 == AppSetStatus(Mach.app, i, d) IN
         /\ exercises_done' = app2.exercises_done
         /\ n_done' = app2.n_done
    /\ PendApply("set_status", None)
    /\ UNCHANGED <<n_exercises, current_exercise_ind, state_file, n_writes,
                   exercise_names>>

PendNext == PendFind \/ PendNextInd \/ PendSetStatus

SpecPend == PendInit /\ [][PendNext]_vars

\* ------------------------------------------------------------------------
\* Undo history sessions: one empty exercise file, the user types and undoes
\* ------------------------------------------------------------------------
MaxTyped == 102

KeyA == KeyChar("a")

KeyUndo == KeyCtrl("z")

KeyRedo == KeyCtrl("Z")

HistInit ==
    /\ TuiInit(1, 0, [i \in {0} |-> FALSE], [i \in {0} |-> << >>])
    /\ script = [typed |-> 0, undone |-> 0, trace |-> << >>]

\* i in Normal mode
HistNormalKey ==
    /\ KeyEvent("Normal", {KeyChar("i")}, {EnvAllOk})
    /\ UNCHANGED <<n_events, script>>

\* a typed character, Ctrl+z or Ctrl+Z in Insert mode
HistInsertKey ==
    /\ KeyEvent("Insert", {KeyA, KeyUndo, KeyRedo}, {EnvAllOk})
    /\ Len(tui'.editor.lines[1]) <= MaxTyped
    /\ UNCHANGED <<n_events, script>>

HistNext == HistNormalKey \/ HistInsertKey

SpecHist == HistInit /\ [][HistNext]_vars

\* The scripted session: i, then N times a, then Ctrl+z over and over.
ScriptInit ==
    /\ TuiInit(1, 0, [i \in {0} |-> FALSE], [i \in {0} |-> << >>])
    /\ script = [typed |-> 0, undone |-> 0, trace |-> <<create_snapshot(tui.editor)>>]

ScriptEnterInsert ==
    /\ KeyEvent("Normal", {KeyChar("i")}, {EnvAllOk})
    /\ UNCHANGED <<n_events, script>>

ScriptType ==
    /\ script.undone = 0
    /\ script.typed < MaxTyped
    /\ KeyEvent("Insert", {KeyA}, {EnvAllOk})
    /\ script' = [script EXCEPT !.typed = @ + 1,
                                !.trace = Append(@, create_snapshot(tui'.editor))]
    /\ UNCHANGED n_events

ScriptUndo ==
    /\ script.undone <= script.typed
    /\ script.undone < MaxTyped
    /\ KeyEvent("Insert", {KeyUndo}, {EnvAllOk})
    /\ script' = [script EXCEPT !.undone = @ + 1]
    /\ UNCHANGED n_events

ScriptNext == ScriptEnterInsert \/ ScriptType \/ ScriptUndo

SpecScript == ScriptInit /\ [][ScriptNext]_vars

\* ------------------------------------------------------------------------
\* Editing sessions: one exercise, every mode, reload polls, external writes
\* ------------------------------------------------------------------------
\* The keys the session draws from in the current state. With keys pending the
\* next key completes dd, yy, gg, diw, daw, ciw, caw or r<char>, or is an arrow
\* key.
\* In Command mode the keys spell w, q, q!, x, wq, c, s and tokens that are no
\* command.
EdKeys ==
    IF tui.mode = "Normal"
    THEN (IF tui.pending_keys = <<"r">> THEN {KeyA}
          ELSE IF tui.pending_keys # << >>
          THEN {KeyChar(c) : c \in {"d", "y", "i", "a", "w", "g"}}
                   \cup {KeyCode("Right")}
          ELSE {KeyChar(c) : c \in {"i", "x", "o", "p", "d", "y", "r", "c", "v",
                                    "l", "j", "k", ":", "g"}} \cup {KeyShift("O")})
    ELSE IF tui.mode = "Insert"
    THEN {KeyA, KeyUndo, KeyRedo}
             \cup {KeyCode(c) : c \in {"Enter", "Backspace", "Delete", "Tab", "Esc"}}
    ELSE IF tui.mode = "Visual"
    THEN {KeyChar(c) : c \in {"l", "j", "k", "d", "y"}} \cup {KeyCode("Esc")}
    ELSE {KeyChar(c) : c \in {c \in {"q", "w", "x", "c", "s", "z", "!"} :
                                 \/ tui.command_buffer = << >> /\ c # "!"
                                 \/ tui.command_buffer = <<"w">> /\ c = "q"
                                 \/ tui.command_buffer = <<"q">> /\ c = "!"}}
             \cup {KeyCode("Enter"), KeyCode("Esc")}

EdInit ==
    /\ TuiInit(1, 0, [i \in {0} |-> FALSE], [i \in {0} |-> <<"a">>])
    /\ script = [typed |-> 0, undone |-> 0, trace |-> << >>]

EdNormalKey ==
    /\ n_events < MaxEvents
    /\ KeyEvent("Normal", EdKeys, {EnvAllOk})
    /\ n_events' = n_events + 1
    /\ UNCHANGED script

EdInsertKey ==
    /\ n_events < MaxEvents
    /\ KeyEvent("Insert", EdKeys, {EnvAllOk})
    /\ n_events' = n_events + 1
    /\ UNCHANGED script

EdVisualKey ==
    /\ n_events < MaxEvents
    /\ KeyEvent("Visual", EdKeys, {EnvAllOk})
    /\ n_events' = n_events + 1
    /\ UNCHANGED script

EdCommandKey ==
    /\ n_events < MaxEvents
    /\ KeyEvent("Command", EdKeys, Envs)
    /\ n_events' = n_events + 1
    /\ UNCHANGED script

\* event::poll timed out: state.check_external_file_change()?
EdPoll ==
    /\ n_events < MaxEvents
    /\ status = "run"
    /\ \E env \in Envs :
         Apply([check_external_file_change(Mach, env) EXCEPT !.signal = signal])
    /\ last_event' = Event("poll", KeyCode("None"))
    /\ n_events' = n_events + 1
    /\ UNCHANGED <<schedVars, script, exercise_names>>

\* Another program rewrites the open exercise file.
EdExternalWrite ==
    /\ n_events < MaxEvents
    /\ status = "run"
    /\ files' = [files EXCEPT ![tui.file_path] = <<"\n", "a", "\n">>]
    /\ mtimes' = [mtimes EXCEPT ![tui.file_path] = @ + 1]
    /\ last_event' = Event("write", KeyCode("None"))
    /\ n_events' = n_events + 1
    /\ UNCHANGED <<appVars, schedVars, tui, signal, status, script, exercise_names>>

EdNext ==
    \/ EdNormalKey
    \/ EdInsertKey
    \/ EdVisualKey
    \/ EdCommandKey
    \/ EdPoll
    \/ EdExternalWrite

SpecEd == EdInit /\ [][EdNext]_vars

\* ------------------------------------------------------------------------
\* Text sessions: exercise files with words, blanks and several lines; word
\* deletions, Visual selections, reload polls, external writes
\* ------------------------------------------------------------------------
\* The texts an exercise file may hold when it is opened.
TextSamples ==
    {<<" ", " ", "a", "b", " ", "c", " ", " ">>,
     <<"a", "b", " ", "\n", " ", "c", "\n", "b">>}

\* The keys the session draws from in the current state: cursor moves, v, q, i
\* and the keys of diw and daw in Normal mode; moves, d and y in Visual mode;
\* undo, redo and Esc in Insert mode.
TextKeys ==
    IF tui.mode = "Visual"
    THEN {KeyChar(c) : c \in {"h", "l", "j", "k", "d", "y"}}
    ELSE IF tui.mode = "Insert" THEN {KeyUndo, KeyRedo, KeyCode("Esc")}
    ELSE IF tui.pending_keys = <<"d">> THEN {KeyChar("i"), KeyChar("a")}
    ELSE IF tui.pending_keys # << >> THEN {KeyChar("w")}
    ELSE {KeyChar(c) : c \in {"l", "w", "j", "v", "d", "q", "i"}}

TextInit ==
    /\ \E text \in TextSamples :
         TuiInit(1, 0, [i \in {0} |-> FALSE], [i \in {0} |-> text])
    /\ script = [typed |-> 0, undone |-> 0, trace |-> << >>]

TextKey ==
    /\ n_events < MaxEvents
    /\ tui.mode \in {"Normal", "Visual", "Insert"}
    /\ KeyEvent(tui.mode, TextKeys, {EnvAllOk})
    /\ n_events' = n_events + 1
    /\ UNCHANGED script

\* execute_command on :watch (the auto-verify toggle) or :w, Enter pressed with
\* that text in the command buffer.
TextCommand ==
    /\ n_events < MaxEvents
    /\ status = "run"
    /\ tui.mode = "Normal"
    /\ tui.pending_keys = << >>
    /\ \E cmd \in {<<"w", "a", "t", "c", "h">>, <<"w">>} :
         /\ Apply(execute_command(Mach, cmd, EnvAllOk))
         /\ last_event' = Event("command", cmd)
    /\ n_events' = n_events + 1
    /\ UNCHANGED <<schedVars, script, exercise_names>>

TextNext ==
    \/ TextKey
    \/ TextCommand
    \/ EdPoll
    \/ EdExternalWrite

SpecText == TextInit /\ [][TextNext]_vars

\* ------------------------------------------------------------------------
\* Editor operations: the methods of TextEditor applied to every short text
\* of brackets, blanks and line feeds at every cursor position
\* ------------------------------------------------------------------------
OpChars == {"(", ")", "[", " ", "\n"}

OpTexts == UNION {[1 .. k -> OpChars] : k \in 0 .. MaxTextLen}

OpInit ==
    /\ \E text \in OpTexts :
         TuiInit(1, 0, [i \in {0} |-> FALSE], [i \in {0} |-> text])
    /\ script = [typed |-> 0, undone |-> 0, trace |-> << >>]

\* The editor method `name` turns the editor into e2 and returns `result`.
OpApply(name, e2, result) ==
    /\ status = "run"
    /\ tui' = [tui EXCEPT !.editor = e2]
    /\ last_event' = Event(name, result)
    /\ UNCHANGED <<appVars, schedVars, files, mtimes, signal, status, n_events,
                   script, exercise_names>>

OpMove ==
    \/ OpApply("move", move_left(tui.editor), None)
    \/ OpApply("move", move_right(tui.editor), None)
    \/ OpApply("move", move_up(tui.editor), None)
    \/ OpApply("move", move_down(tui.editor), None)

OpWordForward == OpApply("move_word_forward", move_word_forward(tui.editor), None)

OpBackspace ==
    /\ ~backspace_panics(tui.editor)
    /\ OpApply("backspace", backspace(tui.editor), None)

OpDelete == OpApply("delete", delete(tui.editor), None)

OpFindBracket ==
    OpApply("find_matching_bracket", tui.editor, find_matching_bracket(tui.editor))

OpNext ==
    \/ OpMove
    \/ OpWordForward
    \/ OpBackspace
    \/ OpDelete
    \/ OpFindBracket

SpecOps == OpInit /\ [][OpNext]_vars

\* ------------------------------------------------------------------------
\* Claims about the buffer and the cursor
\* ------------------------------------------------------------------------
LastKey(mode, key) == last_event = Some([kind |-> "key", key |-> key, mode |-> mode])

\* C5: whatever keys are handled (dd on the only line, a Visual delete over
\* every line, line merges, undo, redo) the buffer keeps at least one line.
C5_NeverEmpty == Len(tui.editor.lines) >= 1

\* dd was completed on a buffer and left the single empty line.
C5_Witness ==
    /\ LastKey("Normal", KeyChar("d"))
    /\ tui.pending_keys = << >>
    /\ tui.yank_buffer # None
    /\ tui.editor.lines = << << >> >>

\* C6: in every reachable state cursor_row indexes a line and cursor_col is at
\* most that line's length, reload polls included.
C6_CursorValid ==
    LET e == tui.editor IN
    /\ e.cursor_row < Len(e.lines)
    /\ e.cursor_col <= Len(e.lines[e.cursor_row + 1])

\* The step handled a key that is not undo or redo and changed the text.
MutatingStep ==
    /\ n_events' = n_events + 1
    /\ last_event'[1].kind = "key"
    /\ last_event'[1].key \notin {KeyUndo, KeyRedo}
    /\ tui'.editor.lines # tui.editor.lines

\* C7: every mutating command pushes the pre-mutation snapshot, so an undo right
\* after it succeeds and restores the text and the cursor from before it.
C7_MutationsSnapshot ==
    [][MutatingStep =>
         /\ undo(tui'.editor).ok
         /\ create_snapshot(undo(tui'.editor).ed) = create_snapshot(tui.editor)]_vars

\* C8: a mutation made while the redo stack is not empty (after an undo) leaves
\* the redo stack empty.
C8_MutationClearsRedo ==
    [][MutatingStep /\ tui.editor.redo_stack # << >>
         => tui'.editor.redo_stack = << >>]_vars

\* ------------------------------------------------------------------------
\* Claims about the undo history
\* ------------------------------------------------------------------------
\* The step saved a snapshot: a character was typed (handle_char).
TypedStep ==
    /\ last_event' # last_event \/ tui' # tui
    /\ tui.mode = "Insert"
    /\ last_event' = Some([kind |-> "key", key |-> KeyA, mode |-> "Insert"])

\* C9: the undo stack never holds more than MAX_UNDO_HISTORY (100) snapshots
\* whatever the order of snapshot-saving keys, undos and redos, and a save at
\* the cap drops the oldest snapshot and appends the new one.
C9_UndoStackCapped ==
    /\ [](Len(tui.editor.undo_stack) <= MAX_UNDO_HISTORY)
    /\ [][TypedStep /\ Len(tui.editor.undo_stack) = MAX_UNDO_HISTORY
            => tui'.editor.undo_stack =
                 Append(Tail(tui.editor.undo_stack), create_snapshot(tui.editor))]_vars

\* A typed character saved a snapshot at the cap: the empty buffer, the oldest
\* snapshot, is gone and the stack still holds 100.
C9_Witness ==
    /\ Len(tui.editor.undo_stack) = MAX_UNDO_HISTORY
    /\ Len(tui.editor.lines[1]) = MaxTyped
    /\ tui.editor.redo_stack = << >>
    /\ tui.editor.undo_stack[1].lines # << << >> >>
    /\ last_event = Some([kind |-> "key", key |-> KeyA, mode |-> "Insert"])

\* C10: after N > 100 snapshot+mutation pairs exactly 100 snapshots remain; the
\* next 100 undos each succeed and the 100th reaches the buffer as it was 100
\* mutations back; the 101st undo returns false and changes nothing.
C10_HundredUndos ==
    LET N == script.typed
        j == script.undone
        e == tui.editor
    IN N > MAX_UNDO_HISTORY =>
         /\ j = 0 => Len(e.undo_stack) = MAX_UNDO_HISTORY
         /\ j <= MAX_UNDO_HISTORY =>
              /\ create_snapshot(e) = script.trace[N - j + 1]
              /\ Len(e.undo_stack) = MAX_UNDO_HISTORY - j
         /\ j < MAX_UNDO_HISTORY => undo(e).ok
         /\ j >= MAX_UNDO_HISTORY =>
              /\ ~undo(e).ok
              /\ undo(e).ed = e
              /\ create_snapshot(e) = script.trace[N - MAX_UNDO_HISTORY + 1]

\* More than 100 characters were typed and the 101st undo was made.
C10_Witness ==
    /\ script.typed > MAX_UNDO_HISTORY
    /\ script.undone = MAX_UNDO_HISTORY + 1
    /\ Len(tui.editor.lines[1]) = script.typed - MAX_UNDO_HISTORY
    /\ last_event = Some([kind |-> "key", key |-> KeyUndo, mode |-> "Insert"])

\* C11: undo on an empty undo stack and redo on an empty redo stack return
\* false and change nothing, and the Ctrl+z / Ctrl+Z key that makes the call
\* leaves the whole editor state and the modified flag as they were, so
\* repeating it changes nothing either.
C11_EmptyStackNoOp ==
    /\ [](LET e == tui.editor IN
          /\ e.undo_stack = << >> => undo(e) = [ed |-> e, ok |-> FALSE]
          /\ e.redo_stack = << >> => redo(e) = [ed |-> e, ok |-> FALSE])
    /\ [][(\/ last_event' = Some([kind |-> "key", key |-> KeyUndo, mode |-> "Insert"])
              /\ tui.mode = "Insert" /\ tui.editor.undo_stack = << >>
           \/ last_event' = Some([kind |-> "key", key |-> KeyRedo, mode |-> "Insert"])
              /\ tui.mode = "Insert" /\ tui.editor.redo_stack = << >>)
          => tui' = tui]_vars

\* Ctrl+Z was pressed with nothing to redo after characters were typed: the
\* redo stack is empty, the typed text and its snapshots are still there.
C11_Witness ==
    /\ LastKey("Insert", KeyRedo)
    /\ tui.editor.redo_stack = << >>
    /\ Len(tui.editor.undo_stack) = 2
    /\ Len(tui.editor.lines[1]) = 2

\* C12: a successful undo pops the newest snapshot, pushes the current state on
\* the redo stack and restores the popped lines and cursor; a redo right after
\* it brings lines, cursor and both stacks back to what they were.
C12_UndoRedoInverse ==
    /\ [](LET e == tui.editor IN
          e.undo_stack # << >> =>
            LET u == undo(e) IN
            /\ u.ok
            /\ create_snapshot(u.ed) = e.undo_stack[Len(e.undo_stack)]
            /\ u.ed.undo_stack = SubSeq(e.undo_stack, 1, Len(e.undo_stack) - 1)
            /\ u.ed.redo_stack = Append(e.redo_stack, create_snapshot(e))
            /\ redo(u.ed) = [ed |-> e, ok |-> TRUE])
    /\ [][last_event' = Some([kind |-> "key", key |-> KeyUndo, mode |-> "Insert"])
          /\ tui.mode = "Insert" /\ tui.editor.undo_stack # << >>
          => /\ tui'.editor = undo(tui.editor).ed
             /\ redo(tui'.editor).ed = tui.editor]_vars

\* Two undos and then a redo were made: the redo succeeded (one snapshot is
\* left to redo) and the buffer is back to the text before the second undo.
C12_Witness ==
    /\ LastKey("Insert", KeyRedo)
    /\ Len(tui.editor.redo_stack) = 1
    /\ Len(tui.editor.undo_stack) = 2
    /\ Len(tui.editor.lines[1]) = 2

\* ------------------------------------------------------------------------
\* The progress record across restarts
\* ------------------------------------------------------------------------
SessLast(kind) == last_event = Some([kind |-> kind])

\* C13: for every current index and every done-set a session can hold, under
\* every order of the exercise list, what write() puts in the state file is
\* parsed back, against the same list, to the same current index and the same
\* done-set, with n_done the size of the done-set; a restart on the file the
\* program wrote changes none of them.
C13_StateRoundTrip ==
    /\ [](parse_state_file(FileBuf(current_exercise_ind, exercises_done, n_exercises),
                           exercise_names, n_exercises)
            = [current_exercise_ind |-> current_exercise_ind,
               exercises_done |-> exercises_done,
               n_done |-> CountDone(exercises_done, n_exercises),
               status |-> "Read"])
    /\ [][(/\ SessLast("restart")'
           /\ state_file = FileBuf(current_exercise_ind, exercises_done, n_exercises))
          => /\ current_exercise_ind' = current_exercise_ind
             /\ exercises_done' = exercises_done
             /\ n_done' = CountDone(exercises_done, n_exercises)]_vars

C13_Witness ==
    /\ SessLast("restart")
    /\ n_exercises = 3
    /\ current_exercise_ind = 1
    /\ n_done = 2
    /\ n_writes > 0
    /\ state_file = FileBuf(current_exercise_ind, exercises_done, n_exercises)

\* C14: when the exercises are reordered between the write and the reload, the
\* reloaded current exercise has the name of the written one and exactly the
\* exercises written as done are done.
C14_ReloadByName ==
    [][(/\ SessLast("reorder")'
        /\ state_file = FileBuf(current_exercise_ind, exercises_done, n_exercises))
       => /\ exercise_names'[current_exercise_ind'] = exercise_names[current_exercise_ind]
          /\ \A i, j \in ExIndices :
                exercise_names'[i] = exercise_names[j]
                    => exercises_done'[i] = exercises_done[j]
          /\ n_done' = n_done]_vars

C14_Witness ==
    /\ SessLast("reorder")
    /\ n_exercises = 3
    /\ exercise_names # InfoNames(3)
    /\ current_exercise_ind = 2
    /\ ExName(2) = InfoNames(3)[0]
    /\ exercises_done = [i \in 0 .. 2 |-> i = 0]
    /\ state_file = STATE_FILE_HEADER \o InfoNames(3)[0] \o <<"\n", "\n">> \o ExName(0)

\* C15: a state file that is a proper prefix of a written one loads as the fresh
\* default: current index 0, no exercise done, n_done 0.
C15_TruncatedLoadsFresh ==
    [][SessLast("truncated")'
       => /\ current_exercise_ind' = 0
          /\ n_done' = 0
          /\ \A i \in ExIndices : ~exercises_done'[i]]_vars

\* C16: whenever check_all_exercises has returned to its caller, the state file
\* parses back to the current exercise and the done-set held in memory.
C16_DiskMatchesMemory ==
    mpc = "returned"
        => LET r == parse_state_file(state_file, exercise_names, n_exercises)
           IN  /\ r.current_exercise_ind = current_exercise_ind
               /\ r.exercises_done = exercises_done

\* ------------------------------------------------------------------------
\* Files, saves and commands
\* ------------------------------------------------------------------------
\* C17: for every text an exercise file holds (the texts of the model use the
\* line feed as their only line ending), TextEditor::new(text).content() is
\* the text again.
C17_TextRoundTrip ==
    \A path \in DOMAIN files : content(NewEditor(files[path])) = files[path]

\* The command the Enter key would execute now.
TypedCommand == TrimEnd(TrimStart(tui.command_buffer))

\* Buffer lines, cursor and modified flag of machine m2 are those of the state.
BufferKept(m2) ==
    /\ m2.tui.editor.lines = tui.editor.lines
    /\ m2.tui.editor.cursor_row = tui.editor.cursor_row
    /\ m2.tui.editor.cursor_col = tui.editor.cursor_col
    /\ m2.tui.modified = tui.modified

\* C18: in every reachable state where Enter would execute :w, :wq, :x or :c
\* (verify), if the write of the exercise file fails then the handler leaves
\* buffer lines, cursor and modified flag as they are and returns no quit
\* signal; the file on disk is not changed either.
C18_FailedSaveKeepsBuffer ==
    (status = "run" /\ tui.mode = "Command"
        /\ TypedCommand \in {<<"w">>, <<"w", "q">>, <<"x">>, <<"c">>})
    => \A env \in Envs :
          ~env.write_ok
          => LET m2 == handle_key(Mach, KeyCode("Enter"), env)
             IN  /\ BufferKept(m2)
                 /\ m2.signal # Some(TRUE)
                 /\ m2.status = "error"
                 /\ m2.files = files

\* :x was executed on a modified buffer and the write failed.
C18_Witness ==
    /\ LastKey("Command", KeyCode("Enter"))
    /\ tui.command_buffer = <<"x">>
    /\ status = "error"
    /\ tui.modified
    /\ tui.editor.lines = << << >> >>
    /\ files[tui.file_path] = <<"a">>
    /\ signal # Some(TRUE)

\* C19: in every reachable state where Enter would execute a token that is no
\* command, or :q on a modified buffer, or :s when the solution panel is closed
\* and no solution can be loaded, the handler leaves buffer lines, cursor,
\* modified flag, current exercise, done-set and view as they are and returns
\* no quit signal; the same holds for toggle_solution called directly.
C19_UserErrorsChangeNothing ==
    status = "run"
    => /\ (/\ tui.mode = "Command"
           /\ \/ TypedCommand \in {<< >>, <<"z">>, <<"s">>}
              \/ TypedCommand = <<"q">> /\ tui.modified)
          => \A env \in Envs :
                (TypedCommand = <<"s">>
                    => /\ tui.view_mode # "WithSolution"
                       /\ (env.sol # "some" \/ ~env.read_ok))
                => LET m2 == handle_key(Mach, KeyCode("Enter"), env)
                   IN  /\ BufferKept(m2)
                       /\ m2.app = Mach.app
                       /\ m2.tui.view_mode = tui.view_mode
                       /\ m2.tui.solution_content = tui.solution_content
                       /\ m2.files = files
                       /\ m2.signal = Some(FALSE)
                       /\ m2.status = "run"
       /\ tui.view_mode # "WithSolution"
          => \A read_ok \in BOOLEAN, sol \in {"some", "none", "err"} :
                (sol # "some" \/ ~read_ok)
                => LET env == [EnvAllOk EXCEPT !.read_ok = read_ok, !.sol = sol]
                   IN  toggle_solution(Mach, env) = Mach

\* :q was refused on a modified buffer.
C19_Witness ==
    /\ LastKey("Command", KeyCode("Enter"))
    /\ tui.command_buffer = <<"q">>
    /\ tui.modified
    /\ tui.editor.lines = << << >> >>
    /\ status = "run"
    /\ signal = Some(FALSE)

\* ------------------------------------------------------------------------
\* Multi-key sequences
\* ------------------------------------------------------------------------
\* The step handled, in Normal mode with keys pending, a key that continues none
\* of dd, yy, r<char>, d/c + a/i, daw, diw, caw, ciw, gg.
UnknownContinuationStep ==
    /\ n_events' = n_events + 1
    /\ last_event'[1].kind = "key"
    /\ tui.mode = "Normal"
    /\ tui.view_mode # "HelpModal"
    /\ tui.pending_keys # << >>
    /\ LET key == last_event'[1].key
           pending == tui.pending_keys
       IN  ~(/\ key.code = "Char"
             /\ \/ pending = <<"d">> /\ key.ch \in {"d", "a", "i"}
                \/ pending = <<"y">> /\ key.ch = "y"
                \/ pending = <<"r">>
                \/ pending = <<"c">> /\ key.ch \in {"a", "i"}
                \/ pending \in {<<"d", "a">>, <<"d", "i">>, <<"c", "a">>, <<"c", "i">>}
                       /\ key.ch = "w"
                \/ pending = <<"g">> /\ key.ch = "g")

\* C20: a key that continues no pending sequence empties the pending buffer and
\* changes nothing else: lines, cursor, mode, yank register and modified flag
\* stay as they are.
C20_UnknownKeyOnlyClearsPending ==
    [][UnknownContinuationStep
         => /\ tui'.pending_keys = << >>
            /\ tui'.editor.lines = tui.editor.lines
            /\ tui'.editor.cursor_row = tui.editor.cursor_row
            /\ tui'.editor.cursor_col = tui.editor.cursor_col
            /\ tui'.mode = tui.mode
            /\ tui'.yank_buffer = tui.yank_buffer
            /\ tui'.modified = tui.modified]_vars

\* ------------------------------------------------------------------------
\* done_current_exercise
\* ------------------------------------------------------------------------
\* The lowest index of a non-empty set of exercise indices.
Lowest(S) == CHOOSE i \in S : \A j \in S : i <= j

PendingAfter == {i \in ExIndices : i > current_exercise_ind /\ ~exercises_done[i]}

PendingBefore == {i \in ExIndices : i < current_exercise_ind /\ ~exercises_done[i]}

\* C21: for every done-vector and every current index,
\* next_pending_exercise_ind is the first pending index after the current one
\* if there is one, otherwise the first pending index before it, otherwise
\* None; it is never the current index.
C21_NextPendingInd ==
    LET r == next_pending_exercise_ind(Mach.app) IN
    /\ PendingAfter # {} => r = Some(Lowest(PendingAfter))
    /\ (PendingAfter = {} /\ PendingBefore # {}) => r = Some(Lowest(PendingBefore))
    /\ (PendingAfter = {} /\ PendingBefore = {}) => r = None
    /\ r # Some(current_exercise_ind)

\* done_current_exercise wrapped around: exercise 0 became current because no
\* exercise after the finished one was pending.
C21_Witness ==
    /\ mpc = "finished"
    /\ ret = Some([kind |-> "Ok", val |-> "NewPending"])
    /\ n_exercises = 3
    /\ current_exercise_ind = 0
    /\ exercises_done = [i \in 0 .. 2 |-> i # 0]
    /\ n_writes = 1
    /\ PendingAfter = {}
    /\ next_pending_exercise_ind(Mach.app) = None

\* The final outcome of exercise i in the bulk check is a pass.
FinalPass(i) ==
    IF retry_result[i] # None THEN retry_result[i] = Some("pass")
    ELSE par_result[i] = Some("pass")

\* C22: done_current_exercise marks the current exercise done; when another
\* exercise is pending the next pending one becomes current and the result is
\* NewPending, without a bulk check; otherwise the bulk check runs, and an Ok
\* result is AllDone exactly when every exercise passed; when some exercise
\* failed, exactly the failing ones are pending, the lowest failing one is
\* current and the result is NewPending.
C22_DoneCurrentExercise ==
    /\ [][(mpc = "call" /\ mpc' # "call")
          => LET others == (PendingAfter \cup PendingBefore) IN
             /\ exercises_done' = [exercises_done EXCEPT ![current_exercise_ind] = TRUE]
             /\ n_done' = CountDone(exercises_done', n_exercises)
             /\ others # {}
                  => /\ mpc' = "finished"
                     /\ ret' = Some([kind |-> "Ok", val |-> "NewPending"])
                     /\ current_exercise_ind' =
                           IF PendingAfter # {} THEN Lowest(PendingAfter)
                           ELSE Lowest(PendingBefore)
                     /\ state_file' = FileBuf(current_exercise_ind', exercises_done',
                                              n_exercises)
             /\ others = {}
                  => /\ mpc' = "idle"
                     /\ current_exercise_ind' = current_exercise_ind]_vars
    /\ []((mpc = "finished" /\ ret[1].kind = "Ok" /\ n_invoked # [i \in ExIndices |-> 0])
          => LET failing == {i \in ExIndices : ~FinalPass(i)} IN
             /\ ret[1].val = "AllDone" <=> failing = {}
             /\ ret[1].val = "NewPending" <=> failing # {}
             /\ \A i \in ExIndices : exercises_done[i] <=> i \notin failing
             /\ n_done = CountDone(exercises_done, n_exercises)
             /\ failing # {} => current_exercise_ind = Lowest(failing)
             /\ state_file = FileBuf(current_exercise_ind, exercises_done, n_exercises))

\* The bulk check found exercises 1 and 2 failing; exercise 1 became current.
C22_Witness ==
    /\ mpc = "finished"
    /\ ret = Some([kind |-> "Ok", val |-> "NewPending"])
    /\ n_exercises = 3
    /\ n_invoked = [i \in 0 .. 2 |-> 1]
    /\ exercises_done = [i \in 0 .. 2 |-> i = 0]
    /\ current_exercise_ind = 1
    /\ retry_result[2] = Some("fail")

\* ------------------------------------------------------------------------
\* The parallel pass of the bulk check
\* ------------------------------------------------------------------------
\* Worker w holds a claimed exercise it has not finished reporting.
Holding(w) == wpc[w] \in {"send_checking", "run", "send_result"}

\* The scope has joined every worker.
WorkersJoined == mpc \in {"process", "retry", "returned", "finished"}

\* C23: in the parallel pass no two workers hold the same exercise, every index
\* below the work cursor was claimed by a worker that either still holds it
\* or has invoked the collaborator on it, no exercise is invoked twice, and
\* when the workers are joined every exercise was invoked exactly once.
C23_ClaimedExactlyOnce ==
    /\ \A w1, w2 \in Workers :
          (w1 # w2 /\ Holding(w1) /\ Holding(w2)) => widx[w1] # widx[w2]
    /\ \A w \in Workers : Holding(w) => widx[w] \in ExIndices
    /\ \A i \in ExIndices :
          /\ n_invoked[i] <= 1
          /\ i < next_exercise_ind
                <=> \/ n_invoked[i] = 1
                    \/ \E w \in Workers : wpc[w] \in {"send_checking", "run"}
                                             /\ widx[w] = i
          /\ n_invoked[i] = 1
                => \A w \in Workers :
                      (wpc[w] \in {"send_checking", "run"}) => widx[w] # i
    /\ WorkersJoined => \A i \in ExIndices : n_invoked[i] = 1

\* Two workers shared three exercises and both have exited.
C23_Witness ==
    /\ mpc = "process"
    /\ n_exercises = 3
    /\ n_threads = 2
    /\ n_invoked = [i \in 0 .. 2 |-> 1]
    /\ next_exercise_ind = 5
    /\ \A w \in Workers : wpc[w] = "exited"

\* C24: workers run only between the spawn loop and the end of the collector
\* loop; in that region the exercise list, the done flags, n_done, the current
\* index and the state file do not change, a step of a worker leaves the
\* status array as it is, and the status array changes only by the collector
\* storing the event at the head of the channel.
C24_ParallelRegionFrame ==
    /\ []((\E w \in Workers : wpc[w] \notin {"unspawned", "exited"})
             => mpc \in {"spawn", "recv"})
    /\ [][(mpc \in {"spawn", "recv"})
            => /\ UNCHANGED <<n_exercises, exercise_names, exercises_done, n_done,
                              current_exercise_ind, state_file, n_writes>>
               /\ wpc' # wpc => progresses' = progresses
               /\ progresses' # progresses
                    => /\ mpc = "recv"
                       /\ chan # << >>
                       /\ chan' = Tail(chan)
                       /\ progresses' = [progresses EXCEPT
                                            ![Head(chan)[1]] = Head(chan)[2]]]_vars

\* The collector has stored a Done while a worker is still running; no done
\* flag is set yet.
C24_Witness ==
    /\ mpc = "recv"
    /\ \E w \in Workers : wpc[w] = "run"
    /\ \E i \in ExIndices : progresses[i] = "Done" /\ ~exercises_done[i]
    /\ n_done = 0
    /\ n_writes = 0

\* The progress values of exercise i waiting in the channel, oldest first.
EventsOf(i) ==
    LET IsOf(e) == e[1] = i
        evs == SelectSeq(chan, IsOf)
    IN  [k \in 1 .. Len(evs) |-> evs[k][2]]

\* C25: in the channel the Checking event of an exercise is ahead of its
\* terminal event (Done, Pending, or None after a collaborator error); the
\* collector moves a slot only from None to Checking and from Checking to the
\* terminal result of that exercise; when the collector loop has ended, and
\* with it the parallel pass, no slot is Checking.
C25_CheckingBeforeResult ==
    /\ [](\A i \in ExIndices :
            LET t == IF par_result[i] = None THEN "Checking"
                     ELSE WorkerProgress(par_result[i][1])
            IN  \/ EventsOf(i) = << >>
                \/ EventsOf(i) = <<"Checking">> /\ progresses[i] = "None"
                \/ EventsOf(i) = <<"Checking", t>> /\ progresses[i] = "None"
                      /\ n_invoked[i] = 1
                \/ EventsOf(i) = <<t>> /\ progresses[i] = "Checking"
                      /\ n_invoked[i] = 1)
    /\ [][(mpc = "recv" /\ progresses' # progresses)
            => LET i == Head(chan)[1] IN
               \/ progresses[i] = "None" /\ progresses'[i] = "Checking"
                     /\ Head(chan)[2] = "Checking"
               \/ progresses[i] = "Checking" /\ par_result[i] # None
                     /\ progresses'[i] = WorkerProgress(par_result[i][1])
                     /\ \A k \in 1 .. Len(chan') : chan'[k][1] # i]_vars
    /\ []((mpc = "process" /\ exercise_ind = 0)
            => \A i \in ExIndices : progresses[i] # "Checking")

\* The parallel pass is over: one exercise passed, one failed, one ended in a
\* collaborator error.
C25_Witness ==
    /\ mpc = "process"
    /\ exercise_ind = 0
    /\ n_exercises = 3
    /\ n_threads = 2
    /\ {progresses[i] : i \in ExIndices} = {"Done", "Pending", "None"}
    /\ chan = << >>

\* C26: when every thread keeps being scheduled and every collaborator
\* invocation returns, a bulk check ends, for every number of workers and of
\* exercises, none included; a worker has exited only after a claim at or
\* past the number of exercises; the collector loop is left, and the retry
\* pass runs, only when every worker has exited and the channel is drained.
C26_BulkCheckTerminates ==
    /\ <>(mpc = "returned")
    /\ [](\A w \in Workers : wpc[w] = "exited" => next_exercise_ind > n_exercises)
    /\ [](mpc \in {"process", "retry", "returned"}
            => /\ \A w \in Workers : wpc[w] = "exited"
               /\ chan = << >>
               /\ next_exercise_ind = n_exercises + n_threads)

\* The bulk check of three exercises by two workers has returned after a retry.
C26_Witness ==
    /\ mpc = "returned"
    /\ ret[1].kind = "Ok"
    /\ n_exercises = 3
    /\ n_threads = 2
    /\ \A w \in Workers : wpc[w] = "exited"
    /\ retry_result[1] = Some("pass")
    /\ next_exercise_ind = 5

\* ------------------------------------------------------------------------
\* Command line
\* ------------------------------------------------------------------------
\* Enter would now execute a token that quits.
QuitToken ==
    \/ TypedCommand \in {<<"q", "!">>, <<"w", "q">>, <<"x">>}
    \/ TypedCommand = <<"q">> /\ ~tui.modified

\* What a step does on the ':' key, on a character key in Command mode and on
\* Enter in Command mode.
CommandLineStep ==
    /\ (/\ status = "run"
        /\ LastKey("Normal", KeyChar(":"))'
        /\ tui.pending_keys = << >>
        /\ tui.view_mode # "HelpModal")
       => (tui'.mode = "Command" /\ tui'.command_buffer = << >>)
    /\ \A c \in {"q", "w", "x", "c", "s", "z", "!"} :
          (status = "run" /\ LastKey("Command", KeyChar(c))')
             => tui'.command_buffer = Append(tui.command_buffer, c)
    /\ (status = "run" /\ LastKey("Command", KeyCode("Enter"))')
       => (/\ tui'.mode = "Normal"
           /\ (status' \in {"run", "quit"} => signal' = Some(QuitToken))
           /\ (status' = "quit" <=> signal' = Some(TRUE)))

\* C27: in every reachable Command-mode state, whatever the buffer holds and
\* whatever the file system answers, Enter leaves the mode Normal; when the
\* handler returns a signal it is quit exactly for q on an unmodified buffer,
\* q!, wq and x and continue for every other token, and no quit signal
\* comes with another token; the ':' key enters Command mode with an empty
\* buffer and a character key appends to it, so that Enter executes the
\* characters typed since ':'.
C27_EnterExecutesTyped ==
    /\ []((status = "run" /\ tui.mode = "Command")
            => \A env \in Envs :
                  LET m2 == handle_key(Mach, KeyCode("Enter"), env)
                  IN  /\ m2.tui.mode = "Normal"
                      /\ (m2.signal = Some(TRUE) => QuitToken)
                      /\ (m2.status = "run" => m2.signal = Some(QuitToken)))
    /\ [][CommandLineStep]_vars

\* :q! was executed on a modified buffer: the program quits.
C27_Witness ==
    /\ LastKey("Command", KeyCode("Enter"))
    /\ tui.command_buffer = <<"q", "!">>
    /\ tui.modified
    /\ tui.mode = "Normal"
    /\ signal = Some(TRUE)

\* ------------------------------------------------------------------------
\* Visual selections
\* ------------------------------------------------------------------------
\* Number of characters of lines.join("\n") before position (row, col).
RECURSIVE CharOffset(_, _, _)
CharOffset(ls, row, col) ==
    IF row = 0 \/ Len(ls) <= 1 THEN (IF ls = << >> THEN 0 ELSE Min(col, Len(ls[1])))
    ELSE Len(ls[1]) + 1 + CharOffset(Tail(ls), row - 1, col)

\* The d key in the present Visual-mode state removes from the text exactly
\* the selection that the y key copies, which starts at the normalized start
\* and ends with the character at the normalized end; the selection is in the
\* yank register, the cursor at the normalized start, the mode Normal.
VisualDeleteExact ==
    LET b == get_selection_bounds(Mach)
        deleted == handle_key(Mach, KeyChar("d"), EnvAllOk)
        yanked == handle_key(Mach, KeyChar("y"), EnvAllOk)
        sel == yanked.tui.yank_buffer[1]
        before == content(tui.editor)
        after == content(deleted.tui.editor)
        from == CharOffset(tui.editor.lines, b[1], b[2])
        to == CharOffset(tui.editor.lines, b[3], b[4] + 1)
    IN  /\ yanked.tui.yank_buffer # None
        /\ yanked.tui.editor = tui.editor
        /\ sel = SubSeq(before, from + 1, to)
        /\ after = Take(before, from) \o Drop(before, to)
        /\ deleted.tui.yank_buffer = Some(sel)
        /\ deleted.tui.editor.cursor_row = b[1]
        /\ deleted.tui.editor.cursor_col = b[2]
        /\ deleted.tui.mode = "Normal"
        /\ yanked.tui.mode = "Normal"

\* C28: in every reachable Visual-mode state the d key removes exactly the
\* text that the y key would copy, from the normalized start through the
\* normalized end, keeps the text before and after it, stores it in the yank
\* register, puts the cursor at the normalized start and returns to Normal.
C28_VisualDeleteIsYank ==
    (status = "run" /\ tui.mode = "Visual") => VisualDeleteExact

\* ------------------------------------------------------------------------
\* Word text objects
\* ------------------------------------------------------------------------
Highest(S) == CHOOSE i \in S : \A j \in S : i >= j

\* chars[from .. to) holds no whitespace / nothing but whitespace.
NoBlank(chars, from, to) == \A k \in (from + 1) .. to : ~IsWhitespace(chars[k])

AllBlank(chars, from, to) == \A k \in (from + 1) .. to : IsWhitespace(chars[k])

\* The maximal non-whitespace run touching column col: <<start, end>>, the run
\* being chars[start .. end).
InnerWord(chars, col) ==
    <<Lowest({s \in 0 .. col : NoBlank(chars, s, col)}),
      Highest({t \in col .. Len(chars) : NoBlank(chars, col, t)})>>

\* The cursor is on a character of a line of the buffer.
CursorInLine == HasLine(tui.editor) /\ tui.editor.cursor_col < Len(CurLine(tui.editor))

\* Machine m2 is the state with chars[start .. end) taken out of the current
\* line and put in the yank register, the cursor at column start.
Removed(m2, start, end) ==
    LET chars == CurLine(tui.editor) IN
    /\ m2.tui.editor.lines
          = [tui.editor.lines EXCEPT ![tui.editor.cursor_row + 1]
                                        = Take(chars, start) \o Drop(chars, end)]
    /\ m2.tui.yank_buffer = Some(SubSeq(chars, start + 1, end))
    /\ m2.tui.editor.cursor_row = tui.editor.cursor_row
    /\ m2.tui.editor.cursor_col = start
    /\ m2.tui.editor.cursor_col <= Len(m2.tui.editor.lines[tui.editor.cursor_row + 1])

\* The line "  foo bar  " with the cursor at column col.
FooBar(col) ==
    [NewEditor(<<" ", " ", "f", "o", "o", " ", "b", "a", "r", " ", " ">>)
        EXCEPT !.cursor_col = col]

\* C29: in every reachable state where d, i are pending and the cursor is on a
\* character of its line, the w key takes exactly the maximal non-whitespace
\* run touching the cursor out of the line, puts it in the yank register,
\* leaves the other characters and lines as they are and moves the cursor to
\* the column where the run started; delete_inner_word returns the run; on
\* "  foo bar  " with the cursor inside foo it leaves "   bar  " and returns
\* foo.
C29_InnerWordDelete ==
    /\ (status = "run" /\ tui.mode = "Normal" /\ tui.pending_keys = <<"d", "i">>
           /\ CursorInLine)
       => LET w == InnerWord(CurLine(tui.editor), tui.editor.cursor_col)
          IN  /\ Removed(handle_key(Mach, KeyChar("w"), EnvAllOk), w[1], w[2])
              /\ delete_inner_word(tui.editor).deleted
                    = Some(SubSeq(CurLine(tui.editor), w[1] + 1, w[2]))
    /\ \A col \in 2 .. 4 :
          /\ delete_inner_word(FooBar(col)).deleted = Some(<<"f", "o", "o">>)
          /\ delete_inner_word(FooBar(col)).ed.lines
                = << <<" ", " ", " ", "b", "a", "r", " ", " ">> >>
          /\ delete_inner_word(FooBar(col)).ed.cursor_col = 2

\* diw was executed with the cursor on the b of "  ab c  ": ab is gone and in
\* the yank register, the cursor is on column 2.
C29_Witness ==
    /\ LastKey("Normal", KeyChar("w"))
    /\ tui.pending_keys = << >>
    /\ tui.editor.lines = << <<" ", " ", " ", "c", " ", " ">> >>
    /\ tui.yank_buffer = Some(<<"a", "b">>)
    /\ tui.editor.cursor_col = 2
    /\ tui.modified

\* C30: in every reachable state where d, a are pending and the cursor is on a
\* character of its line, the w key takes out the inner word and one
\* whitespace run next to it: the run after the word when there is one, the
\* run before the word only when there is none after it; the removed text is
\* in the yank register and the cursor is at the start of the removed region,
\* inside the shortened line.
C30_AroundWordDelete ==
    (status = "run" /\ tui.mode = "Normal" /\ tui.pending_keys = <<"d", "a">>
        /\ CursorInLine)
    => LET chars == CurLine(tui.editor)
           w == InnerWord(chars, tui.editor.cursor_col)
           after == Highest({t \in w[2] .. Len(chars) : AllBlank(chars, w[2], t)})
           before == Lowest({s \in 0 .. w[1] : AllBlank(chars, s, w[1])})
           m2 == handle_key(Mach, KeyChar("w"), EnvAllOk)
       IN  IF after > w[2] THEN Removed(m2, w[1], after)
           ELSE Removed(m2, before, w[2])

\* daw was executed on the c of the line " c", which has no blank after it:
\* the blank before c went with it.
C30_Witness ==
    /\ LastKey("Normal", KeyChar("w"))
    /\ tui.pending_keys = << >>
    /\ tui.editor.lines = << <<"a", "b", " ">>, << >>, <<"b">> >>
    /\ tui.yank_buffer = Some(<<" ", "c">>)
    /\ tui.editor.cursor_row = 1
    /\ tui.editor.cursor_col = 0

\* ------------------------------------------------------------------------
\* Bracket matching
\* ------------------------------------------------------------------------
\* <<opening bracket, closing bracket>> of the kind of bracket c.
BracketKind(c) ==
    IF c \in {"(", ")"} THEN <<"(", ")">>
    ELSE IF c \in {"{", "}"} THEN <<"{", "}">>
    ELSE IF c \in {"[", "]"} THEN <<"[", "]">>
    ELSE <<"<", ">">>

\* Occurrences of ch among t[from .. to].
Occurrences(t, ch, from, to) == Cardinality({k \in from .. to : t[k] = ch})

\* The matching bracket may be a character of the buffer at offset q - 1 of
\* the joined text.
AtOffset(e, found, q) ==
    /\ found # None
    /\ found[1][1] < Len(e.lines)
    /\ found[1][2] < Len(e.lines[found[1][1] + 1])
    /\ CharOffset(e.lines, found[1][1], found[1][2]) = q - 1

\* find_matching_bracket on editor e finds what a depth counter finds on the
\* joined text, and the search from the match leads back to the cursor.
BracketMatchExact(e) ==
    LET t == content(e)
        p == CharOffset(e.lines, e.cursor_row, e.cursor_col) + 1
        found == find_matching_bracket(e)
        at == char_at_cursor(e)
        kind == BracketKind(at[1])
        closers == {q \in (p + 1) .. Len(t) :
                      1 + Occurrences(t, kind[1], p + 1, q)
                        - Occurrences(t, kind[2], p + 1, q) = 0}
        openers == {q \in 1 .. (p - 1) :
                      1 + Occurrences(t, kind[2], q, p - 1)
                        - Occurrences(t, kind[1], q, p - 1) = 0}
        back == find_matching_bracket([e EXCEPT !.cursor_row = found[1][1],
                                                !.cursor_col = found[1][2]])
    IN  IF at = None \/ at[1] \notin {"(", ")", "{", "}", "[", "]", "<", ">"}
        THEN found = None
        ELSE /\ at[1] = kind[1]
                => IF closers = {} THEN found = None
                   ELSE AtOffset(e, found, Lowest(closers))
             /\ at[1] = kind[2]
                => IF openers = {} THEN found = None
                   ELSE AtOffset(e, found, Highest(openers))
             /\ found # None => back = Some(<<e.cursor_row, e.cursor_col>>)

\* C31: for every buffer and cursor position, find_matching_bracket returns,
\* from an opening bracket, the closing bracket of the same kind at which a
\* depth counter seeded at 1 first reaches 0, across lines, and from a
\* closing bracket the opening bracket found the same way backward; the
\* search from the bracket found returns the bracket it started from; on a
\* character that is no bracket, past the end of the line or on a bracket
\* without a partner it returns nothing.
C31_BracketMatch == status = "run" => BracketMatchExact(tui.editor)

\* The search from the first bracket of "([" / ")" found the bracket on the
\* second line.
C31_Witness ==
    /\ tui.editor.lines = << <<"(", "[">>, <<")">> >>
    /\ tui.editor.cursor_row = 0
    /\ tui.editor.cursor_col = 0
    /\ last_event = Event("find_matching_bracket", Some(<<1, 0>>))

\* ------------------------------------------------------------------------
\* Word motion, line joins
\* ------------------------------------------------------------------------
\* move_word_forward applied n times.
RECURSIVE WordForwardTimes(_, _)
WordForwardTimes(e, n) ==
    IF n = 0 THEN e ELSE WordForwardTimes(move_word_forward(e), n - 1)

\* Editor e with the cursor at the end of the last line.
AtEndOfText(e) ==
    /\ e.cursor_row = Len(e.lines) - 1
    /\ e.cursor_col = Len(e.lines[Len(e.lines)])

\* C32: for every buffer and cursor position, move_word_forward leaves the
\* lines alone and moves the cursor over the non-whitespace run at the
\* cursor and the whitespace run after it; when that ends the line and a
\* next line exists the cursor goes to the first non-whitespace column of the
\* next line, on the last line it stays at the end of the line; the cursor
\* never moves backward; at the end of the last line the motion changes
\* nothing, and repeating it leads there from everywhere.
C32_WordForward ==
    (status = "run" /\ HasLine(tui.editor)
        /\ tui.editor.cursor_col <= Len(CurLine(tui.editor)))
    => LET e == tui.editor
           chars == CurLine(e)
           e2 == move_word_forward(e)
           word_end == Highest({t \in e.cursor_col .. Len(chars) :
                                  NoBlank(chars, e.cursor_col, t)})
           blank_end == Highest({t \in word_end .. Len(chars) :
                                   AllBlank(chars, word_end, t)})
       IN  /\ e2.lines = e.lines
           /\ IF blank_end = Len(chars) /\ e.cursor_row + 1 < Len(e.lines)
              THEN LET next == e.lines[e.cursor_row + 2] IN
                   /\ e2.cursor_row = e.cursor_row + 1
                   /\ e2.cursor_col = Highest({t \in 0 .. Len(next) : AllBlank(next, 0, t)})
              ELSE /\ e2.cursor_row = e.cursor_row
                   /\ e2.cursor_col = blank_end
           /\ \/ e2.cursor_row > e.cursor_row
              \/ e2.cursor_row = e.cursor_row /\ e2.cursor_col >= e.cursor_col
           /\ AtEndOfText(e) <=> e2 = e
           /\ AtEndOfText(WordForwardTimes(e, Len(content(e)) + 1))

\* From the bracket of the first line the motion went to the bracket of the
\* second line, past the blank in front of it.
C32_Witness ==
    /\ last_event = Event("move_word_forward", None)
    /\ tui.editor.lines = << <<"(">>, <<" ", "(">> >>
    /\ tui.editor.cursor_row = 1
    /\ tui.editor.cursor_col = 1

\* The characters of all lines in order, line breaks left out.
RECURSIVE ConcatLines(_)
ConcatLines(ls) == IF ls = << >> THEN << >> ELSE Head(ls) \o ConcatLines(Tail(ls))

\* Editor e2 has the lines of e with line r + 1 joined onto line r (rows
\* counted from 0).
Joined(e, e2, r) ==
    /\ Len(e2.lines) = Len(e.lines) - 1
    /\ ConcatLines(e2.lines) = ConcatLines(e.lines)
    /\ e2.lines[r + 1] = e.lines[r + 1] \o e.lines[r + 2]
    /\ \A k \in 1 .. Len(e2.lines) :
          /\ k < r + 1 => e2.lines[k] = e.lines[k]
          /\ k > r + 1 => e2.lines[k] = e.lines[k + 1]

\* C33: for every buffer and cursor position, backspace at column 0 of a row
\* r > 0 joins line r onto line r - 1 and puts the cursor at the former
\* length of line r - 1; delete at the end of a line that is not the last
\* joins the next line onto it and leaves the cursor; both take one line off
\* the count and keep the characters of the lines in order; backspace at
\* (0,0) and delete at the end of the last line change nothing.
C33_LineJoins ==
    (status = "run" /\ HasLine(tui.editor)
        /\ tui.editor.cursor_col <= Len(CurLine(tui.editor)))
    => LET e == tui.editor
           bs == backspace(e)
           del == delete(e)
           last == e.cursor_row = Len(e.lines) - 1
       IN  /\ (e.cursor_col = 0 /\ e.cursor_row > 0)
              => /\ Joined(e, bs, e.cursor_row - 1)
                 /\ bs.cursor_row = e.cursor_row - 1
                 /\ bs.cursor_col = Len(e.lines[e.cursor_row])
           /\ (e.cursor_col = Len(CurLine(e)) /\ ~last)
              => /\ Joined(e, del, e.cursor_row)
                 /\ del.cursor_row = e.cursor_row
                 /\ del.cursor_col = e.cursor_col
           /\ (e.cursor_col = 0 /\ e.cursor_row = 0) => bs = e
           /\ (e.cursor_col = Len(CurLine(e)) /\ last) => del = e

\* delete at the end of the first line joined "(" and ")" into "()".
C33_Witness ==
    /\ last_event = Event("delete", None)
    /\ files[0] = <<"(", "\n", ")">>
    /\ tui.editor.lines = << <<"(", ")">> >>
    /\ tui.editor.cursor_row = 0
    /\ tui.editor.cursor_col = 1

\* ------------------------------------------------------------------------
\* Reload polls
\* ------------------------------------------------------------------------
\* The file of the open exercise is newer than the time recorded last.
FileIsNewer ==
    /\ tui.last_file_modified # None
    /\ mtimes[tui.file_path] > tui.last_file_modified[1]

\* The state with the buffer loaded from the file and the new time recorded.
Reloaded ==
    [Mach EXCEPT !.tui.editor = NewEditor(files[tui.file_path]),
                 !.tui.last_file_modified = Some(mtimes[tui.file_path])]

\* C34: in every reachable state and for every answer of the file system, the
\* poll loads the file into the buffer when the file is newer than the time
\* recorded last and the modified flag is false, and in no other case: with
\* unsaved edits, or with a file that is not newer, it leaves buffer, files
\* and progress record alone; after a reload with the auto-verify toggle off
\* nothing else happens, with the toggle on the buffer is saved and checked,
\* and a passing check marks the exercise done.
C34_ReloadPoll ==
    status = "run"
    => \A env \in Envs :
          LET m2 == check_external_file_change(Mach, env) IN
          IF FileIsNewer /\ ~tui.modified
          THEN /\ ~env.read_ok => (m2.status = "error" /\ m2.tui.editor = tui.editor)
               /\ (env.read_ok /\ ~tui.auto_compile_on_change) => m2 = Reloaded
               /\ (env.read_ok /\ tui.auto_compile_on_change)
                  => /\ m2 = compile(Reloaded, env)
                     /\ env.write_ok
                        => m2.files[tui.file_path]
                             = content(NewEditor(files[tui.file_path]))
                     /\ (env.write_ok /\ env.check = "pass")
                        => m2.app.exercises_done[current_exercise_ind]
          ELSE /\ m2.tui.editor = tui.editor
               /\ m2.tui.modified = tui.modified
               /\ m2.files = files
               /\ m2.app = Mach.app
               /\ m2.status = "run"

\* With the toggle off the poll loaded the text another program wrote and
\* checked nothing: the file still ends in a line feed, no exercise is done.
C34_Witness ==
    /\ last_event = Event("poll", KeyCode("None"))
    /\ ~tui.auto_compile_on_change
    /\ ~tui.modified
    /\ tui.editor.lines = << << >>, <<"a">> >>
    /\ files[tui.file_path] = <<"\n", "a", "\n">>
    /\ tui.last_file_modified = Some(mtimes[tui.file_path])
    /\ n_done = 0

\* ------------------------------------------------------------------------
\* Quitting
\* ------------------------------------------------------------------------
\* C35: whenever the session has ended with a quit signal while the modified
\* flag is true, the event that ended it was Enter on the command :q!.
C35_NoQuitWithUnsavedEdits ==
    (status = "quit" /\ tui.modified)
    => /\ LastKey("Command", KeyCode("Enter"))
       /\ TypedCommand = <<"q", "!">>

\* ------------------------------------------------------------------------
\* Modified flag
\* ------------------------------------------------------------------------
\* The step loaded the buffer from an exercise file.
LoadStep ==
    /\ tui'.editor.lines = NewEditor(files[tui'.file_path]).lines
    /\ ~tui'.modified

\* The step wrote the buffer to its file and left the lines alone.
SaveStep ==
    /\ tui'.editor.lines = tui.editor.lines
    /\ files'[tui.file_path] = content(tui.editor)
    /\ ~tui'.modified

C37_AnchorInBuffer ==
    (status = "run" /\ tui.mode = "Visual")
    => /\ tui.visual_start_row < Len(tui.editor.lines)
       /\ tui.visual_start_col <= Len(tui.editor.lines[tui.visual_start_row + 1])

\* The key sequences that can be pending.
PendingPrefixes ==
    {<<"d">>, <<"y">>, <<"r">>, <<"c">>, <<"g">>,
     <<"d", "a">>, <<"d", "i">>, <<"c", "a">>, <<"c", "i">>}

\* Keys of every class handle_normal_mode tells apart.
PendingProbes ==
    {KeyChar(c) : c \in {"d", "y", "r", "c", "g", "a", "i", "w", "v", ":", "o",
                         "A", "x", "l", "z"}}
        \cup {KeyCode(c) : c \in {"Esc", "Enter", "Right"}}
        \cup {KeyShift("A"), KeyShift("O"), KeyCtrl("o")}

\* C38: keys are pending only in Normal mode, what is pending is one of d, y,
\* r, c, g, da, di, ca, ci, and whatever key is handled while keys are
\* pending, the interpreter is in Insert, Command or Visual mode afterwards
\* only with nothing pending.
C38_PendingKeys ==
    (status = "run" /\ tui.pending_keys # << >>)
    => /\ tui.mode = "Normal"
       /\ tui.pending_keys \in PendingPrefixes
       /\ \A key \in PendingProbes :
              LET r == handle_key(Mach, key, EnvAllOk) IN
              /\ r.tui.pending_keys \in PendingPrefixes \cup {<< >>}
              /\ r.tui.mode # "Normal" => r.tui.pending_keys = << >>

\* c, i, w: the change command entered Insert mode and nothing is pending.
C38_Witness ==
    /\ LastKey("Normal", KeyChar("w"))
    /\ tui.mode = "Insert"
    /\ tui.pending_keys = << >>
    /\ tui.modified

\* ------------------------------------------------------------------------
\* Done counter and next pending exercise
\* ------------------------------------------------------------------------
\* The counter of the app record is the number of done flags set.
Counted(app) ==
    /\ app.n_done = CountDone(app.exercises_done, app.n_exercises)
    /\ app.n_done <= app.n_exercises

\* C39: n_done is the number of exercises whose done flag is true, so that
\* n_pending = len - n_done is not negative, in every state of
\* done_current_exercise and of the bulk check it runs, after set_status and
\* set_pending on any exercise from there, and after the state file is loaded.
C39_NDoneCounts ==
    /\ Counted(Mach.app)
    /\ \A i \in ExIndices :
          /\ Counted(AppSetPending(Mach.app, i))
          /\ \A d \in BOOLEAN : Counted(AppSetStatus(Mach.app, i, d))
    /\ LET r == parse_state_file(state_file, exercise_names, n_exercises) IN
       /\ r.n_done = CountDone(r.exercises_done, n_exercises)
       /\ r.n_done <= n_exercises

\* All three exercises were marked done, the bulk check found exercises 0 and
\* 2 failing and set them pending: one exercise is left done.
C39_Witness ==
    /\ mpc = "finished"
    /\ n_exercises = 3
    /\ n_invoked # [i \in ExIndices |-> 0]
    /\ exercises_done = [i \in ExIndices |-> i = 1]
    /\ n_done = 1

\* C40: for every done vector and every current index the search of the
\* terminal UI and the search of the app state give the same result: the
\* first pending exercise after the current one, else the first pending one
\* before it, else none.
C40_SearchesAgree ==
    LET r == find_next_pending_exercise(Mach) IN
    /\ r = next_pending_exercise_ind(Mach.app)
    /\ r = IF PendingAfter # {} THEN Some(Lowest(PendingAfter))
           ELSE IF PendingBefore # {} THEN Some(Lowest(PendingBefore))
           ELSE None

\* With the last of three exercises current and only exercise 0 pending the
\* search of the terminal UI wrapped around to exercise 0.
C40_Witness ==
    /\ last_event = Some([kind |-> "find_next_pending_exercise", result |-> Some(0)])
    /\ n_exercises = 3
    /\ current_exercise_ind = 2
    /\ exercises_done = [i \in ExIndices |-> i # 0]

====
